---- MODULE Spec2Model ----
(***************************************************************************)
(* FinTrack-Pro: the date normalization layer (utils/dateUtils.ts), the    *)
(* recurring-transaction materializer (services/storageService.ts), the    *)
(* recurring-definition handlers (RecurringSettings, RecurringForm, App)   *)
(* and the startup sequence (App.tsx loadData).                            *)
(*                                                                         *)
(* Text is a sequence of one-character strings, so that formatting and     *)
(* parsing are computed character by character as the code computes them.  *)
(* A JavaScript Date is a record [y, m, d] of its local calendar fields    *)
(* (m is 0-based, as getMonth returns it); the invalid date has NaN in     *)
(* every field.                                                            *)
(***************************************************************************)
EXTENDS Integers, Sequences, FiniteSets

VARIABLES
    \* --- date round trip (utils/dateUtils.ts) ---
    dpc,        \* position of the round-trip computation
    dDate,      \* the calendar date under test
    dStr,       \* formatDateToDDMMYYYY(dDate)
    dIso,       \* ddmmyyyyToISO(dStr)
    dBack,      \* parseToDate(dStr)
    dIsoBack,   \* parseToDate(dIso)
    engine,     \* what the JavaScript engine's Date(string) makes of a text
                \* outside the standard date-time format
    \* --- sessions of the application over reliable storage ---
    today,          \* the clock's calendar date (new Date() in the code)
    transactions,   \* App state: the ledger
    recurring,      \* App state: the recurring definitions
    editingConfig,  \* RecurringSettings state: the definition being edited
    nextId,         \* the identifiers generateId has handed out so far
    origin,         \* history: materialized transaction id -> definition id
    last,           \* history: the latest materializer invocation
    ops,            \* history: the user operations performed, in order, each
                    \* with the definition's marker at the time
    \* --- loadData, step by step, over the storage ---
    lpc,            \* position of loadData
    electron,       \* isElectron()
    store,          \* the key-value store: the file or localStorage
    loaded,         \* loadedTransactions, loadedRecurring
    outcome,        \* what processRecurringTransactions returned
    writes,         \* history: the writes issued, in order, with their status
    loading,        \* the loading flag of AppContent
    calls,          \* history: invocations of processRecurringTransactions
    adopted,        \* history: setTransactions and setRecurring have run
    \* --- record entry (TransactionList, TransactionForm, Investments) ---
    route,              \* the page the router shows
    investments,        \* App state: the investment ledger
    invFormData,        \* Investments state: formData, the investment form
    isFormOpen,         \* Investments state: the investment form is shown
    fundsDate,          \* Investments state: the date of the funds modal
    sellModalSymbol,    \* Investments state: the symbol being sold
    txFormData,         \* TransactionForm state
    editingTransaction, \* TransactionList state
    saves,              \* history: how many records have been saved
    \* --- the portfolio engine (Investments) ---
    exchangeRate,       \* Investments state: ILS per USD
    prices,             \* Investments state: the quotes, <<symbol, price>>
    displayCurrency,    \* Investments state
    fpc,                \* position of the portfolio computation
    sortedInvestments,  \* portfolio memo: the events in date order
    cursor,             \* portfolio memo: events folded so far
    groups,             \* portfolio memo: the positions, in order of appearance
    rows,               \* AssetGroup: the figures shown for each position
    asOf,               \* generateChartData: the date of the timestamp
    historic,           \* generateChartData: events looked at so far
    totalInvested,      \* generateChartData: invested capital at the timestamp
    val,                \* generateChartData: the cash flow of the latest event
    \* --- the chart of the investments page ---
    apiKey,             \* Investments state: the key of the quote service
    timeRange,          \* Investments state: the selected range
    benchmarkSymbol,    \* Investments state: the selected benchmark
    chartData,          \* Investments state: the series shown
    isLoadingChart,     \* Investments state
    effectDue,          \* the chart effect of the mount has not run yet
    runs,               \* the invocations of generateChartData in flight
    started,            \* history: how many invocations have started
    completed,          \* history: the invocations that finished, in order,
                        \* each with what its benchmark fetch returned
    \* --- one invocation of generateChartData, timestamp by timestamp ---
    spc,                \* position of the invocation
    benchmarkCandles,   \* generateChartData: benchmarkData
    stockDataMap,       \* generateChartData: symbol -> the candles fetched
    tsIndex,            \* generateChartData: timestamps handled so far
    historyPts,         \* generateChartData: historyPoints
    locals,             \* history: portfolioValue, totalInvested and the
                        \* price of each symbol at each timestamp
    \* --- the category manager (CategoryManager) ---
    categories,         \* App state: the labels of income and of expense
    newCategory,        \* CategoryManager state: the text of the input
    activeTab,          \* CategoryManager state
    error,              \* CategoryManager state
    draggedItemIndex,   \* CategoryManager state: index from 0, -1 for null
    lastOp,             \* history: the latest operation on the lists
    \* --- the averages of Insights and of the Dashboard ---
    stats,              \* Insights: the value of the stats memo
    averages            \* Dashboard: the value of the averages memo

dateVars == <<dpc, dDate, dStr, dIso, dBack, dIsoBack, engine>>

appVars == <<today, transactions, recurring, editingConfig, nextId, origin,
             last, ops>>

loadVars == <<lpc, electron, store, loaded, outcome, writes, loading, calls,
              adopted>>

entryVars == <<route, investments, invFormData, isFormOpen, fundsDate, sellModalSymbol,
               txFormData, editingTransaction, saves>>

foldVars == <<exchangeRate, prices, displayCurrency, fpc, sortedInvestments,
              cursor, groups, rows, asOf, historic, totalInvested, val>>

chartVars == <<apiKey, timeRange, benchmarkSymbol, chartData, isLoadingChart,
               effectDue, runs, started, completed>>

seriesVars == <<spc, benchmarkCandles, stockDataMap, tsIndex, historyPts,
                locals>>

catVars == <<categories, newCategory, activeTab, error, draggedItemIndex,
             lastOp>>

avgVars == <<stats, averages>>

\* The state of the specifications that follow the series.
laterVars == <<catVars, avgVars>>

\* The state of the specifications that follow the chart.
restVars == <<seriesVars, laterVars>>

investVars == <<entryVars, foldVars, chartVars, restVars>>

vars == <<dateVars, appVars, loadVars, investVars>>

(***************************************************************************)
(* JavaScript primitives used by the code                                  *)
(***************************************************************************)

\* The not-a-number value: an integer no computation of the model yields.
NaN == 0 - 999999999

Digits == <<"0", "1", "2", "3", "4", "5", "6", "7", "8", "9">>

IsDigit(c) == \E i \in 1..10 : Digits[i] = c

DigitVal(c) == (CHOOSE i \in 1..10 : Digits[i] = c) - 1

\* Number.prototype.toString for a non-negative integer.
RECURSIVE toString(_)
toString(n) ==
    IF n < 10 THEN <<Digits[n + 1]>>
    ELSE toString(n \div 10) \o <<Digits[(n % 10) + 1]>>

\* String.prototype.padStart(len, ch).
RECURSIVE padStart(_, _, _)
padStart(s, len, ch) ==
    IF Len(s) >= len THEN s ELSE padStart(<<ch>> \o s, len, ch)

\* String.prototype.split(sep) for a one-character separator.
RECURSIVE split(_, _)
split(s, sep) ==
    IF \A i \in 1..Len(s) : s[i] # sep THEN <<s>>
    ELSE LET k == CHOOSE i \in 1..Len(s) :
                      s[i] = sep /\ \A j \in 1..(i - 1) : s[j] # sep
         IN <<SubSeq(s, 1, k - 1)>> \o split(SubSeq(s, k + 1, Len(s)), sep)

\* String.prototype.trim, for the blank.
RECURSIVE trim(_)
trim(s) ==
    IF Len(s) = 0 THEN s
    ELSE IF s[1] = " " THEN trim(SubSeq(s, 2, Len(s)))
    ELSE IF s[Len(s)] = " " THEN trim(SubSeq(s, 1, Len(s) - 1))
    ELSE s

\* Number(string): surrounding blanks are dropped; the empty string is 0, a
\* digit string its value, any other text over the model's alphabet is NaN.
RECURSIVE DigitsValue(_)
DigitsValue(s) ==
    IF Len(s) = 0 THEN 0
    ELSE 10 * DigitsValue(SubSeq(s, 1, Len(s) - 1)) + DigitVal(s[Len(s)])

Number(s) ==
    LET t == trim(s)
    IN IF \A i \in 1..Len(t) : IsDigit(t[i]) THEN DigitsValue(t) ELSE NaN

IsLeapYear(y) == (y % 4 = 0 /\ y % 100 # 0) \/ y % 400 = 0

DaysInMonth(y, m) ==
    IF m = 1 THEN (IF IsLeapYear(y) THEN 29 ELSE 28)
    ELSE IF m \in {3, 5, 8, 10} THEN 30 ELSE 31

InvalidDate == [y |-> NaN, m |-> NaN, d |-> NaN]

\* Day overflow and underflow of the Date constructor: a day past the end
\* of the month rolls into the following months, a day before the 1st into
\* the preceding ones.
RECURSIVE RollDay(_, _, _)
RollDay(y, m, d) ==
    IF d < 1 THEN
        LET py == IF m = 0 THEN y - 1 ELSE y
            pm == IF m = 0 THEN 11 ELSE m - 1
        IN RollDay(py, pm, d + DaysInMonth(py, pm))
    ELSE IF d > DaysInMonth(y, m) THEN
        LET ny == IF m = 11 THEN y + 1 ELSE y
            nm == IF m = 11 THEN 0 ELSE m + 1
        IN RollDay(ny, nm, d - DaysInMonth(y, m))
    ELSE [y |-> y, m |-> m, d |-> d]

\* new Date(year, monthIndex, day): NaN in any argument gives the invalid
\* date, a year 0..99 means 1900 + year, and month and day are normalised.
NewDate(year, monthIndex, day) ==
    IF year = NaN \/ monthIndex = NaN \/ day = NaN THEN InvalidDate
    ELSE LET yy == IF year \in 0..99 THEN 1900 + year ELSE year
         IN RollDay(yy + (monthIndex \div 12), monthIndex % 12, day)

\* Date.prototype.getTime is NaN exactly for the invalid date.
IsInvalidDate(date) == date.d = NaN

(***************************************************************************)
(* utils/dateUtils.ts                                                      *)
(***************************************************************************)

pad(n) == padStart(toString(n), 2, "0")

\* /^\d{2}-\d{2}-\d{4}$/
MatchesDDMMYYYY(s) ==
    /\ Len(s) = 10
    /\ \A i \in {1, 2, 4, 5, 7, 8, 9, 10} : IsDigit(s[i])
    /\ s[3] = "-" /\ s[6] = "-"

\* /^\d{4}-\d{2}-\d{2}/ (a prefix match)
MatchesISO(s) ==
    /\ Len(s) >= 10
    /\ \A i \in {1, 2, 3, 4, 6, 7, 9, 10} : IsDigit(s[i])
    /\ s[5] = "-" /\ s[8] = "-"

ddmmyyyyToISO(ddmmyyyy) ==
    IF Len(ddmmyyyy) = 0 THEN <<>>
    ELSE LET parts == split(ddmmyyyy, "-")
         IN IF Len(parts) # 3 THEN ddmmyyyy
            ELSE parts[3] \o <<"-">> \o parts[2] \o <<"-">> \o parts[1]

isoToDDMMYYYY(iso) ==
    IF Len(iso) = 0 THEN <<>>
    ELSE LET datePart == split(iso, "T")[1]
             parts == split(datePart, "-")
         IN IF Len(parts) # 3 THEN iso
            ELSE parts[3] \o <<"-">> \o parts[2] \o <<"-">> \o parts[1]

\* new Date(string), the generic parse parseToDate falls back on. A text
\* without a digit is no date in any engine; what is made of any other text
\* that reaches the fallback is left to the engine, which never throws.
GenericDateParse(s) ==
    IF \A i \in 1..Len(s) : ~IsDigit(s[i]) THEN InvalidDate ELSE engine

\* Mutant: the time suffix is not cut off before the fields are read.
parseToDateKeepingSuffix(dateStr) ==
    IF Len(dateStr) = 0 THEN InvalidDate
    ELSE IF MatchesDDMMYYYY(dateStr) THEN
        LET p == split(dateStr, "-")
        IN NewDate(Number(p[3]), Number(p[2]) - 1, Number(p[1]))
    ELSE IF MatchesISO(dateStr) THEN
        LET p == split(dateStr, "-")
        IN NewDate(Number(p[1]), Number(p[2]) - 1, Number(p[3]))
    ELSE GenericDateParse(dateStr)

parseToDate(dateStr) ==
    IF Len(dateStr) = 0 THEN InvalidDate
    ELSE IF MatchesDDMMYYYY(dateStr) THEN
        LET p == split(dateStr, "-")
        IN NewDate(Number(p[3]), Number(p[2]) - 1, Number(p[1]))
    ELSE IF MatchesISO(dateStr) THEN
        LET p == split(split(dateStr, "T")[1], "-")
        IN NewDate(Number(p[1]),
                   IF Number(p[2]) = NaN THEN NaN ELSE Number(p[2]) - 1,
                   Number(p[3]))
    ELSE GenericDateParse(dateStr)

\* Mutant: the 0-based month is written as it is.
formatDateZeroBasedMonth(date) ==
    IF IsInvalidDate(date) THEN <<>>
    ELSE pad(date.d) \o <<"-">> \o pad(date.m) \o <<"-">> \o toString(date.y)

formatDateToDDMMYYYY(date) ==
    IF IsInvalidDate(date) THEN <<>>
    ELSE pad(date.d) \o <<"-">> \o pad(date.m + 1) \o <<"-">> \o toString(date.y)

normalizeToISO(dateStr) ==
    IF Len(dateStr) = 0 THEN <<>>
    ELSE IF MatchesDDMMYYYY(dateStr) THEN ddmmyyyyToISO(dateStr)
    ELSE IF MatchesISO(dateStr) THEN split(dateStr, "T")[1]
    ELSE <<>>

\* new Date().toISOString().split('T')[0] when the clock shows date (the
\* offset of the local zone from UTC is left out).
toISODate(date) ==
    padStart(toString(date.y), 4, "0") \o <<"-">> \o pad(date.m + 1) \o <<"-">>
        \o pad(date.d)

\* The round trip at rest, in the specifications that do not run it.
DateIdle ==
    /\ dpc = "idle"
    /\ dDate = InvalidDate
    /\ dStr = <<>>
    /\ dIso = <<>>
    /\ dBack = InvalidDate
    /\ dIsoBack = InvalidDate
    /\ engine = InvalidDate

(***************************************************************************)
(* services/storageService.ts: the recurrence materializer                 *)
(***************************************************************************)

\* TRANSLATIONS.recurring, the label of a materialized description.
TRANSLATIONS_recurring == "recurring"

\* An optional text field that is not set (undefined, falsy like '').
undefined == <<>>

\* generateId: an identifier not handed out before.
generateId(counter) == counter + 1

\* Mutant: the marker is never consulted.
shouldAddIgnoringMarker(config, now) ==
    now.d >= config.dayOfMonth

\* Mutant: the nominal day itself is not yet due.
shouldAddStrictlyAfter(config, now) ==
    IF config.lastProcessedDate = undefined THEN
        now.d > config.dayOfMonth
    ELSE
        LET lastDate == parseToDate(config.lastProcessedDate)
        IN /\ (lastDate.m # now.m \/ lastDate.y # now.y)
           /\ now.d > config.dayOfMonth

\* Mutant: the day of the month is not compared with the nominal day.
shouldAddAnyDay(config, now) ==
    IF config.lastProcessedDate = undefined THEN TRUE
    ELSE
        LET lastDate == parseToDate(config.lastProcessedDate)
        IN lastDate.m # now.m \/ lastDate.y # now.y

\* The due test of one active definition.
shouldAdd(config, now) ==
    IF config.lastProcessedDate = undefined THEN
        now.d >= config.dayOfMonth
    ELSE
        LET lastDate == parseToDate(config.lastProcessedDate)
        IN /\ (lastDate.m # now.m \/ lastDate.y # now.y)
           /\ now.d >= config.dayOfMonth

\* Mutant: the transaction is dated on the clock's day.
newTxDatedToday(config, now, id) ==
    [id          |-> id,
     date        |-> formatDateToDDMMYYYY(NewDate(now.y, now.m, now.d)),
     amount      |-> config.amount,
     type        |-> config.type,
     category    |-> config.category,
     description |-> config.description \o " (" \o TRANSLATIONS_recurring \o ")",
     isRecurring |-> TRUE]

\* The transaction built for a due definition.
newTx(config, now, id) ==
    LET dateObj == NewDate(now.y, now.m, config.dayOfMonth)
    IN [id          |-> id,
        date        |-> formatDateToDDMMYYYY(dateObj),
        amount      |-> config.amount,
        type        |-> config.type,
        category    |-> config.category,
        description |-> config.description \o " (" \o TRANSLATIONS_recurring \o ")",
        isRecurring |-> TRUE]

\* Mutant: newTransactions aliases the argument array.
pushInPlace(acc, tx) ==
    [acc EXCEPT !.updatedTransactions = Append(@, tx),
                !.transactions = Append(@, tx)]

\* newTransactions.push(newTx): the copy grows, the argument array does not.
push(acc, tx) ==
    [acc EXCEPT !.updatedTransactions = Append(@, tx)]

\* Mutant: the marker is not advanced.
mapConfigKeepingMarker(acc, config, now) ==
    IF config.active /\ shouldAdd(config, now) THEN
        LET id == generateId(acc.idCounter)
        IN [push(acc, newTx(config, now, id)) EXCEPT
               !.addedCount = @ + 1,
               !.idCounter = id,
               !.origins = Append(@, <<id, config.id>>),
               !.updatedRecurring = Append(@, config)]
    ELSE
        [acc EXCEPT !.updatedRecurring = Append(@, config)]

\* Mutant: the active flag is not consulted.
mapConfigIgnoringActive(acc, config, now) ==
    IF shouldAdd(config, now) THEN
        LET id == generateId(acc.idCounter)
            tx == newTx(config, now, id)
        IN [push(acc, tx) EXCEPT
               !.addedCount = @ + 1,
               !.idCounter = id,
               !.origins = Append(@, <<id, config.id>>),
               !.updatedRecurring =
                   Append(@, [config EXCEPT !.lastProcessedDate = tx.date])]
    ELSE
        [acc EXCEPT !.updatedRecurring = Append(@, config)]

\* Mutant: a definition last materialized before the previous month gets a
\* transaction for the previous month as well.
mapConfigBackfilling(acc, config, now) ==
    IF ~config.active THEN
        [acc EXCEPT !.updatedRecurring = Append(@, config)]
    ELSE IF shouldAdd(config, now) THEN
        LET behind == /\ config.lastProcessedDate # undefined
                      /\ parseToDate(config.lastProcessedDate) #
                             NewDate(now.y, now.m - 1, 1)
            missedId == generateId(acc.idCounter)
            missed == [newTx(config, now, missedId) EXCEPT
                          !.date = formatDateToDDMMYYYY(
                                       NewDate(now.y, now.m - 1, config.dayOfMonth))]
            filled == IF behind
                      THEN [push(acc, missed) EXCEPT
                               !.addedCount = @ + 1,
                               !.idCounter = missedId,
                               !.origins = Append(@, <<missedId, config.id>>)]
                      ELSE acc
            id == generateId(filled.idCounter)
            tx == newTx(config, now, id)
            pushed == push(filled, tx)
        IN [pushed EXCEPT
               !.addedCount = @ + 1,
               !.idCounter = id,
               !.origins = Append(@, <<id, config.id>>),
               !.updatedRecurring =
                   Append(@, [config EXCEPT !.lastProcessedDate = tx.date])]
    ELSE
        [acc EXCEPT !.updatedRecurring = Append(@, config)]

\* One step of recurring.map(...): the definition at index i.
mapConfig(acc, config, now) ==
    IF ~config.active THEN
        [acc EXCEPT !.updatedRecurring = Append(@, config)]
    ELSE IF shouldAdd(config, now) THEN
        LET id == generateId(acc.idCounter)
            tx == newTx(config, now, id)
            pushed == push(acc, tx)
        IN [pushed EXCEPT
               !.addedCount = @ + 1,
               !.idCounter = id,
               !.origins = Append(@, <<id, config.id>>),
               !.updatedRecurring =
                   Append(@, [config EXCEPT !.lastProcessedDate = tx.date])]
    ELSE
        [acc EXCEPT !.updatedRecurring = Append(@, config)]

RECURSIVE mapFrom(_, _, _, _)
mapFrom(i, acc, configs, now) ==
    IF i > Len(configs) THEN acc
    ELSE mapFrom(i + 1, mapConfig(acc, configs[i], now), configs, now)

\* processRecurringTransactions(transactions, recurring) read at clock date
\* now. The result carries, next to the three returned values, the content
\* of the two argument arrays after the call, the identifier counter and
\* the definition each new transaction was built from (history).
processRecurringTransactions(txs, configs, now, counter) ==
    mapFrom(1,
            [updatedTransactions |-> txs,
             updatedRecurring    |-> <<>>,
             addedCount          |-> 0,
             transactions        |-> txs,
             recurring           |-> configs,
             idCounter           |-> counter,
             origins             |-> <<>>],
            configs, now)

(***************************************************************************)
(* App.tsx, RecurringSettings, RecurringForm: the handlers of the          *)
(* recurring definitions                                                   *)
(***************************************************************************)

\* Mutant: the entity is appended whether its id is present or not.
upsertAppending(list, item) == Append(list, item)

\* const newRecurring = recurring.some(...) ? recurring.map(...) : [...recurring, conf]
upsert(list, item) ==
    IF \E i \in 1..Len(list) : list[i].id = item.id
    THEN [i \in 1..Len(list) |-> IF list[i].id = item.id THEN item ELSE list[i]]
    ELSE Append(list, item)

\* list.filter(x => x.id !== id)
RECURSIVE removeById(_, _)
removeById(list, id) ==
    IF Len(list) = 0 THEN <<>>
    ELSE IF Head(list).id = id THEN removeById(Tail(list), id)
    ELSE <<Head(list)>> \o removeById(Tail(list), id)

\* RecurringForm.validate
validate(formData) ==
    /\ formData.amount > 0
    /\ formData.dayOfMonth >= 1
    /\ formData.dayOfMonth <= 31

\* Mutant: the marker is not carried over from the form data.
submittedWithoutMarker(formData, counter) ==
    [id                |-> IF formData.id = 0 THEN generateId(counter) ELSE formData.id,
     type              |-> formData.type,
     category          |-> formData.category,
     description       |-> formData.description,
     amount            |-> formData.amount,
     dayOfMonth        |-> formData.dayOfMonth,
     active            |-> formData.active,
     lastProcessedDate |-> undefined]

\* The record RecurringForm.handleSubmit hands to onSave.
submitted(formData, counter) ==
    [id                |-> IF formData.id = 0 THEN generateId(counter) ELSE formData.id,
     type              |-> formData.type,
     category          |-> formData.category,
     description       |-> formData.description,
     amount            |-> formData.amount,
     dayOfMonth        |-> formData.dayOfMonth,
     active            |-> formData.active,
     lastProcessedDate |-> formData.lastProcessedDate]

(***************************************************************************)
(* Numbers of the portfolio engine. A JavaScript number is modelled by the *)
(* exact fraction [n, d] in lowest terms, so rounding of the floating-     *)
(* point operations is left out; a division by zero and everything         *)
(* computed from it is the one value NotFinite (Infinity and NaN in the    *)
(* code).                                                                  *)
(***************************************************************************)

Abs(x) == IF x < 0 THEN 0 - x ELSE x

RECURSIVE Gcd(_, _)
Gcd(a, b) == IF b = 0 THEN a ELSE Gcd(b, a % b)

NotFinite == [n |-> 0, d |-> 0]

IsFinite(x) == x.d # 0

\* The fraction n / d, d # 0, in lowest terms with a positive denominator.
Ratio(n, d) ==
    LET g == Gcd(Abs(n), Abs(d))
    IN IF d < 0 THEN [n |-> (0 - n) \div g, d |-> (0 - d) \div g]
       ELSE [n |-> n \div g, d |-> d \div g]

Num(k) == [n |-> k, d |-> 1]

Plus(x, y) ==
    IF ~IsFinite(x) \/ ~IsFinite(y) THEN NotFinite
    ELSE Ratio(x.n * y.d + y.n * x.d, x.d * y.d)

Minus(x, y) ==
    IF ~IsFinite(x) \/ ~IsFinite(y) THEN NotFinite
    ELSE Ratio(x.n * y.d - y.n * x.d, x.d * y.d)

Times(x, y) ==
    IF ~IsFinite(x) \/ ~IsFinite(y) THEN NotFinite
    ELSE Ratio(x.n * y.n, x.d * y.d)

Over(x, y) ==
    IF ~IsFinite(x) \/ ~IsFinite(y) \/ y.n = 0 THEN NotFinite
    ELSE Ratio(x.n * y.d, x.d * y.n)

\* x > 0
Positive(x) == IsFinite(x) /\ x.n > 0

\* A number used as a condition: 0 and NaN are falsy.
Truthy(x) == IsFinite(x) /\ x.n # 0

(***************************************************************************)
(* components/Investments.tsx: the portfolio fold                          *)
(***************************************************************************)

\* parseToDate(a.date).getTime() - parseToDate(b.date).getTime() as the
\* sort reads it: negative, zero or positive; NaN counts as zero.
compareDates(a, b) ==
    LET x == parseToDate(a.date)
        y == parseToDate(b.date)
    IN IF IsInvalidDate(x) \/ IsInvalidDate(y) THEN 0
       ELSE IF x.y # y.y THEN x.y - y.y
       ELSE IF x.m # y.m THEN x.m - y.m
       ELSE x.d - y.d

\* Mutant: an event is put before the events of the same date.
RECURSIVE insertBeforeEqual(_, _)
insertBeforeEqual(list, tx) ==
    IF Len(list) = 0 THEN <<tx>>
    ELSE IF compareDates(tx, Head(list)) <= 0 THEN <<tx>> \o list
    ELSE <<Head(list)>> \o insertBeforeEqual(Tail(list), tx)

\* One element put into a sorted list, after the elements it does not
\* precede.
RECURSIVE insert(_, _)
insert(list, tx) ==
    IF Len(list) = 0 THEN <<tx>>
    ELSE IF compareDates(tx, Head(list)) < 0 THEN <<tx>> \o list
    ELSE <<Head(list)>> \o insert(Tail(list), tx)

\* [...investments].sort(compare): Array.prototype.sort is stable.
RECURSIVE sort(_)
sort(list) ==
    IF Len(list) = 0 THEN <<>>
    ELSE insert(sort(SubSeq(list, 1, Len(list) - 1)), list[Len(list)])

\* Mutant: the local price is multiplied by the rate.
priceInUSDMultiplying(tx, rate) ==
    IF tx.currency = "USD" THEN tx.pricePerUnit
    ELSE Times(tx.pricePerUnit, rate)

\* Normalize to USD
priceInUSD(tx, rate) ==
    IF tx.currency = "USD" THEN tx.pricePerUnit
    ELSE Over(tx.pricePerUnit, rate)

\* The group a symbol starts with.
newGroup(tx) ==
    [symbol |-> tx.symbol, assetType |-> tx.assetType, quantity |-> Num(0),
     avgBuyPrice |-> Num(0), totalInvested |-> Num(0), currentPrice |-> undefined,
     transactions |-> <<>>]

\* Mutant: the average is the plain mean of the old average and the price.
buyUnweighted(group, tx, price) ==
    [group EXCEPT
        !.quantity = Plus(group.quantity, tx.quantity),
        !.avgBuyPrice = Over(Plus(group.avgBuyPrice, price), Num(2)),
        !.totalInvested = Plus(group.totalInvested, Times(tx.quantity, price))]

\* Mutant: the invested capital counts the price in its own currency.
buyInvestingUnconverted(group, tx, price) ==
    LET currentTotalValueUSD == Times(group.quantity, group.avgBuyPrice)
        newTxValueUSD == Times(tx.quantity, price)
        totalQty == Plus(group.quantity, tx.quantity)
    IN [group EXCEPT
           !.quantity = totalQty,
           !.avgBuyPrice = IF Positive(totalQty)
                           THEN Over(Plus(currentTotalValueUSD, newTxValueUSD), totalQty)
                           ELSE group.avgBuyPrice,
           !.totalInvested = Plus(group.totalInvested,
                                  Times(tx.quantity, tx.pricePerUnit))]

\* Mutant: a position without quantity keeps the average it has.
buyKeepingClosedAverage(group, tx, price) ==
    LET currentTotalValueUSD == Times(group.quantity, group.avgBuyPrice)
        newTxValueUSD == Times(tx.quantity, price)
        totalQty == Plus(group.quantity, tx.quantity)
    IN [group EXCEPT
           !.quantity = totalQty,
           !.avgBuyPrice = IF Positive(group.quantity)
                           THEN Over(Plus(currentTotalValueUSD, newTxValueUSD), totalQty)
                           ELSE IF Len(group.transactions) > 1 THEN group.avgBuyPrice
                           ELSE price,
           !.totalInvested = Plus(group.totalInvested, newTxValueUSD)]

\* The BUY branch.
buy(group, tx, price) ==
    LET currentTotalValueUSD == Times(group.quantity, group.avgBuyPrice)
        newTxValueUSD == Times(tx.quantity, price)
        totalQty == Plus(group.quantity, tx.quantity)
    IN [group EXCEPT
           !.quantity = totalQty,
           !.avgBuyPrice = IF Positive(totalQty)
                           THEN Over(Plus(currentTotalValueUSD, newTxValueUSD), totalQty)
                           ELSE group.avgBuyPrice,
           !.totalInvested = Plus(group.totalInvested, newTxValueUSD)]

\* Mutant: the sale proceeds are taken off the invested capital.
sellAtSalePrice(group, tx, price) ==
    [group EXCEPT
        !.totalInvested = Minus(group.totalInvested, Times(tx.quantity, price)),
        !.quantity = Minus(group.quantity, tx.quantity)]

\* Mutant: the average is recomputed from what is left.
sellRecomputingAverage(group, tx, price) ==
    LET left == Minus(group.quantity, tx.quantity)
        invested == Minus(group.totalInvested, Times(tx.quantity, group.avgBuyPrice))
    IN [group EXCEPT
           !.totalInvested = invested,
           !.quantity = left,
           !.avgBuyPrice = Over(invested, left)]

\* The SELL branch.
sell(group, tx, price) ==
    LET costBasisSoldUSD == Times(tx.quantity, group.avgBuyPrice)
    IN [group EXCEPT
           !.totalInvested = Minus(group.totalInvested, costBasisSoldUSD),
           !.quantity = Minus(group.quantity, tx.quantity)]

\* The position of a symbol among the groups, 0 when it has none.
indexOf(acc, symbol) ==
    IF \E i \in 1..Len(acc) : acc[i].symbol = symbol
    THEN CHOOSE i \in 1..Len(acc) : acc[i].symbol = symbol
    ELSE 0

\* The body of sortedInvestments.forEach.
applyTx(acc, tx, rate) ==
    LET known == IF indexOf(acc, tx.symbol) = 0
                 THEN Append(acc, newGroup(tx)) ELSE acc
        i == indexOf(known, tx.symbol)
        group == [known[i] EXCEPT !.transactions = Append(@, tx)]
        price == priceInUSD(tx, rate)
    IN [known EXCEPT ![i] = IF tx.type = "BUY" THEN buy(group, tx, price)
                             ELSE sell(group, tx, price)]

RECURSIVE forEach(_, _, _)
forEach(acc, list, rate) ==
    IF Len(list) = 0 THEN acc
    ELSE forEach(applyTx(acc, Head(list), rate), Tail(list), rate)

\* Attach current price if exists: quotes is a set of <<symbol, price>>.
attachPrices(acc, quotes) ==
    [i \in 1..Len(acc) |->
        IF \E q \in quotes : q[1] = acc[i].symbol /\ Truthy(q[2])
        THEN [acc[i] EXCEPT !.currentPrice =
                 (CHOOSE q \in quotes : q[1] = acc[i].symbol)[2]]
        ELSE acc[i]]

\* The portfolio memo: Object.values(groups) in the order the symbols
\* first appear in the sorted events.
portfolio(list, rate, quotes) ==
    attachPrices(forEach(<<>>, sort(list), rate), quotes)

(***************************************************************************)
(* Sessions of the application over storage that keeps every write: each   *)
(* start-up materializes on what the previous session left, and the user   *)
(* edits, toggles, adds and deletes definitions in between.                *)
(***************************************************************************)

\* Bound of the model: user operations on definitions.
MaxEdits == 2

\* The dates on which the application is started: in a leap February
\* before and after the nominal days, in the March after it before and
\* after the first nominal day, and in the February of the next year.
StartDates ==
    { [y |-> 2024, m |-> 1, d |-> 10], [y |-> 2024, m |-> 1, d |-> 20],
      [y |-> 2024, m |-> 1, d |-> 25], [y |-> 2024, m |-> 2, d |-> 10],
      [y |-> 2024, m |-> 2, d |-> 16], [y |-> 2025, m |-> 1, d |-> 20] }

\* What the user enters in the form.
FormDays == {15, 20}
FormKinds == { [type |-> "EXPENSE", category |-> "Rent", amount |-> 40],
               [type |-> "INCOME", category |-> "Salary", amount |-> 75] }

FormKind(type) == CHOOSE kind \in FormKinds : kind.type = type

DateOf(dt) == NewDate(dt.y, dt.m, dt.d)

Before(a, b) ==
    \/ a.y < b.y
    \/ a.y = b.y /\ a.m < b.m
    \/ a.y = b.y /\ a.m = b.m /\ a.d < b.d

NoConfig == [id |-> 0]
NoCall == [called |-> FALSE]

\* A definition as the form creates it: no identifier, never processed.
FreshForm(kind, day, active) ==
    [id |-> 0, type |-> kind.type, category |-> kind.category,
     description |-> kind.category, amount |-> kind.amount, dayOfMonth |-> day,
     active |-> active, lastProcessedDate |-> undefined]

NoTx == [id |-> 0]

\* The portfolio memo, AssetGroup and the chart before they have run.
FoldIdle ==
    /\ fpc = "idle"
    /\ sortedInvestments = <<>>
    /\ cursor = 0
    /\ groups = <<>>
    /\ rows = <<>>
    /\ asOf = InvalidDate
    /\ historic = 0
    /\ totalInvested = Num(0)
    /\ val = Num(0)

\* The chart before the page is mounted.
ChartIdle ==
    /\ apiKey = ""
    /\ timeRange = "1Y"
    /\ benchmarkSymbol = "SPY"
    /\ chartData = <<>>
    /\ isLoadingChart = FALSE
    /\ effectDue = FALSE
    /\ runs = {}
    /\ started = 0
    /\ completed = <<>>

\* generateChartData before it is invoked.
SeriesIdle ==
    /\ spc = "idle"
    /\ benchmarkCandles = <<>>
    /\ stockDataMap = <<>>
    /\ tsIndex = 0
    /\ historyPts = <<>>
    /\ locals = <<>>

\* The category manager before the page is shown.
CatIdle ==
    /\ categories = [income |-> <<>>, expense |-> <<>>]
    /\ newCategory = <<>>
    /\ activeTab = "EXPENSE"
    /\ error = ""
    /\ draggedItemIndex = 0 - 1
    /\ lastOp = [op |-> "none"]

\* A memo before the component has rendered.
unrendered == [rendered |-> FALSE]

AvgIdle ==
    /\ stats = unrendered
    /\ averages = unrendered

LaterIdle ==
    /\ CatIdle
    /\ AvgIdle

RestIdle ==
    /\ SeriesIdle
    /\ LaterIdle

\* The record entry, the portfolio engine and the chart at rest.
PagesIdle ==
    /\ ChartIdle
    /\ route = "/"
    /\ investments = <<>>
    /\ invFormData = NoTx
    /\ isFormOpen = FALSE
    /\ fundsDate = <<>>
    /\ sellModalSymbol = ""
    /\ txFormData = NoTx
    /\ editingTransaction = NoTx
    /\ saves = 0
    /\ exchangeRate = Num(0)
    /\ prices = {}
    /\ displayCurrency = "USD"
    /\ FoldIdle

\* Everything of the investments page and of the pages modelled after it
\* at rest.
InvestIdle ==
    /\ PagesIdle
    /\ RestIdle

\* loadData at rest, in the specifications that do not step through it.
LoadIdle ==
    /\ lpc = "idle"
    /\ electron = FALSE
    /\ store = [fintrack_transactions |-> <<>>, fintrack_recurring |-> <<>>]
    /\ loaded = [transactions |-> <<>>, recurring |-> <<>>]
    /\ outcome = NoCall
    /\ writes = <<>>
    /\ loading = FALSE
    /\ calls = 0
    /\ adopted = FALSE

AppIdle ==
    /\ today = InvalidDate
    /\ transactions = <<>>
    /\ recurring = <<>>
    /\ editingConfig = NoConfig
    /\ nextId = 0
    /\ origin = {}
    /\ last = NoCall
    /\ ops = <<>>

Init ==
    /\ DateIdle
    /\ LoadIdle
    /\ InvestIdle
    /\ \E dt \in StartDates :
           /\ \A other \in StartDates \ {dt} : Before(DateOf(dt), DateOf(other))
           /\ today = DateOf(dt)
    /\ transactions = <<>>
    /\ \E day \in FormDays :
           recurring = << [FreshForm(FormKind("EXPENSE"), day, TRUE) EXCEPT !.id = 1] >>
    /\ editingConfig = NoConfig
    /\ nextId = 1
    /\ origin = {}
    /\ last = NoCall
    /\ ops = <<>>

\* loadData over storage that keeps every write: materialize at clock date
\* now on what the previous session left and adopt the result. A session
\* starts with a fresh RecurringSettings component.
Materialize(now) ==
    \E r \in {processRecurringTransactions(transactions, recurring, now, nextId)} :
        /\ today' = now
        /\ transactions' = r.updatedTransactions
        /\ recurring' = r.updatedRecurring
        /\ nextId' = r.idCounter
        /\ origin' = origin \cup {r.origins[i] : i \in 1..Len(r.origins)}
        /\ editingConfig' = NoConfig
        /\ last' = [called |-> TRUE,
                    repeat |-> last.called /\ now = today,
                    now    |-> now,
                    input  |-> [transactions |-> transactions,
                                recurring |-> recurring],
                    result |-> r]
        /\ UNCHANGED ops

\* A session starts on a date not before the previous one.
Startup ==
    \E dt \in StartDates :
        /\ ~Before(DateOf(dt), today)
        /\ Materialize(DateOf(dt))

\* App.handleSaveRecurring
handleSaveRecurring(conf) ==
    /\ recurring' = upsert(recurring, conf)

\* RecurringSettings.handleEdit
handleEdit ==
    /\ \E i \in 1..Len(recurring) :
           /\ editingConfig # recurring[i]
           /\ editingConfig' = recurring[i]
    /\ last' = NoCall
    /\ UNCHANGED <<today, transactions, recurring, nextId, origin, ops>>

\* RecurringSettings.handleCancelEdit
handleCancelEdit ==
    /\ editingConfig # NoConfig
    /\ editingConfig' = NoConfig
    /\ last' = NoCall
    /\ UNCHANGED <<today, transactions, recurring, nextId, origin, ops>>

\* RecurringForm.handleSubmit, through RecurringSettings.handleSave: while
\* a definition is being edited the form holds editingConfig with the day
\* the user has entered, otherwise it holds a new definition.
handleSubmit ==
    /\ Len(ops) < MaxEdits
    /\ \E day \in FormDays :
           LET formData == IF editingConfig # NoConfig
                           THEN [editingConfig EXCEPT !.dayOfMonth = day]
                           ELSE FreshForm(FormKind("INCOME"), day, TRUE)
               conf == submitted(formData, nextId)
           IN /\ validate(formData)
              /\ handleSaveRecurring(conf)
              /\ nextId' = IF editingConfig # NoConfig THEN nextId
                                                       ELSE generateId(nextId)
              /\ ops' = Append(ops, <<IF editingConfig # NoConfig THEN "submit"
                                                                 ELSE "create",
                                      conf.id, conf.lastProcessedDate>>)
    /\ editingConfig' = NoConfig
    /\ last' = NoCall
    /\ UNCHANGED <<today, transactions, origin>>

\* RecurringSettings.handleToggleActive
handleToggleActive ==
    /\ Len(ops) < MaxEdits
    /\ \E i \in 1..Len(recurring) :
           /\ handleSaveRecurring([recurring[i] EXCEPT !.active = ~recurring[i].active])
           /\ ops' = Append(ops, <<"toggle", recurring[i].id,
                                  recurring[i].lastProcessedDate>>)
    /\ last' = NoCall
    /\ UNCHANGED <<today, transactions, editingConfig, nextId, origin>>

\* App.handleDeleteRecurring
handleDeleteRecurring ==
    /\ Len(ops) < MaxEdits
    /\ \E i \in 1..Len(recurring) :
           /\ recurring' = removeById(recurring, recurring[i].id)
           /\ ops' = Append(ops, <<"delete", recurring[i].id,
                                  recurring[i].lastProcessedDate>>)
    /\ last' = NoCall
    /\ UNCHANGED <<today, transactions, editingConfig, nextId, origin>>

Next ==
    \/ (Startup /\ UNCHANGED <<dateVars, loadVars, investVars>>)
    \/ (handleEdit /\ UNCHANGED <<dateVars, loadVars, investVars>>)
    \/ (handleCancelEdit /\ UNCHANGED <<dateVars, loadVars, investVars>>)
    \/ (handleSubmit /\ UNCHANGED <<dateVars, loadVars, investVars>>)
    \/ (handleToggleActive /\ UNCHANGED <<dateVars, loadVars, investVars>>)
    \/ (handleDeleteRecurring /\ UNCHANGED <<dateVars, loadVars, investVars>>)

Spec == Init /\ [][Next]_vars

(***************************************************************************)
(* One invocation of the materializer on an arbitrary stored state: every  *)
(* day of a 28-, 29-, 30- and 31-day month, every nominal day 1..31, the   *)
(* marker absent, in this month, in the previous month or in the same      *)
(* month of the previous year.                                             *)
(***************************************************************************)

OnceMonths == { [y |-> 2023, m |-> 1], [y |-> 2024, m |-> 1],
                [y |-> 2024, m |-> 2], [y |-> 2024, m |-> 3] }

OnceDates ==
    {dt \in [y : {2023, 2024}, m : 0..11, d : 1..31] :
         /\ [y |-> dt.y, m |-> dt.m] \in OnceMonths
         /\ dt.d <= DaysInMonth(dt.y, dt.m)}

\* The markers an earlier materialization can have left, relative to now.
MarkersAt(now) ==
    {undefined} \cup
    {formatDateToDDMMYYYY(NewDate(now.y - back[1], now.m - back[2], 1)) :
         back \in {<<0, 0>>, <<0, 1>>, <<1, 0>>}}

\* A transaction the user entered by hand.
ManualTx ==
    [id |-> 3, date |-> formatDateToDDMMYYYY(NewDate(2023, 0, 5)), amount |-> 12,
     type |-> "EXPENSE", category |-> "Rent", description |-> "manual",
     isRecurring |-> FALSE]

InitOnce ==
    /\ DateIdle
    /\ LoadIdle
    /\ InvestIdle
    /\ today \in OnceDates
    /\ transactions = <<ManualTx>>
    /\ \E kind \in FormKinds, day \in 1..31, active \in BOOLEAN,
          marker \in MarkersAt(today), otherDay \in {1, 31} :
           /\ kind.type = "EXPENSE"
           /\ recurring =
                  << [FreshForm(kind, day, active) EXCEPT
                          !.id = 1, !.lastProcessedDate = marker],
                     [FreshForm(FormKind("INCOME"), otherDay, TRUE) EXCEPT
                          !.id = 2] >>
    /\ editingConfig = NoConfig
    /\ nextId = 3
    /\ origin = {}
    /\ last = NoCall
    /\ ops = <<>>

MaterializeOnce ==
    /\ ~last.called
    /\ Materialize(today)

NextOnce == MaterializeOnce /\ UNCHANGED <<dateVars, loadVars, investVars>>

SpecOnce == InitOnce /\ [][NextOnce]_vars

(***************************************************************************)
(* App.tsx loadData, step by step, over the storage of                     *)
(* services/storageService.ts: the Electron file store behind              *)
(* ipcMain.handle('save-data'), whose writes resolve later and may fail    *)
(* with false, or the browser's localStorage, whose writes are immediate   *)
(* and may throw.                                                          *)
(***************************************************************************)

STORAGE_KEY_TRANSACTIONS == "fintrack_transactions"
STORAGE_KEY_RECURRING == "fintrack_recurring"

\* Mutant: the promise of a save is not awaited.
notAwaited(k) == TRUE

\* await of the k-th write issued: the promise has settled.
awaited(k) == writes[k].status # "pending"

\* Every write issued so far has been awaited.
allAwaited == \A k \in 1..Len(writes) : awaited(k)

\* What an earlier session can have left in the store.
StoredDefinitions(now) ==
    { <<first>> \o rest :
        first \in { [FreshForm(kind, day, active) EXCEPT
                        !.id = 1, !.lastProcessedDate = marker] :
                    kind \in {k \in FormKinds : k.type = "EXPENSE"},
                    day \in FormDays, active \in BOOLEAN,
                    marker \in MarkersAt(now) },
        rest \in { <<>> } \cup
                 { << [FreshForm(kind, 31, TRUE) EXCEPT !.id = 2] >> :
                   kind \in {k \in FormKinds : k.type = "INCOME"} } }

InitLoad ==
    /\ DateIdle
    /\ InvestIdle
    /\ \E dt \in StartDates : today = DateOf(dt)
    /\ transactions = <<>>
    /\ recurring = <<>>
    /\ editingConfig = NoConfig
    /\ nextId = 3
    /\ origin = {}
    /\ last = NoCall
    /\ ops = <<>>
    /\ lpc = "getTransactions"
    /\ electron \in BOOLEAN
    /\ \E configs \in StoredDefinitions(today) :
           store = [fintrack_transactions |-> <<ManualTx>>,
                    fintrack_recurring |-> configs]
    /\ loaded = [transactions |-> <<>>, recurring |-> <<>>]
    /\ outcome = NoCall
    /\ writes = <<>>
    /\ loading = TRUE
    /\ calls = 0
    /\ adopted = FALSE

\* const loadedTransactions = await getTransactions()
getTransactions ==
    /\ lpc = "getTransactions"
    /\ loaded' = [loaded EXCEPT !.transactions = store[STORAGE_KEY_TRANSACTIONS]]
    /\ lpc' = "getRecurringConfigs"
    /\ UNCHANGED <<appVars, store, outcome, writes, loading, electron, calls, adopted>>

\* const loadedRecurring = await getRecurringConfigs()
getRecurringConfigs ==
    /\ lpc = "getRecurringConfigs"
    /\ loaded' = [loaded EXCEPT !.recurring = store[STORAGE_KEY_RECURRING]]
    /\ lpc' = "getCategories"
    /\ UNCHANGED <<appVars, store, outcome, writes, loading, electron, calls, adopted>>

\* await getCategories(); await getInvestments()
getCategoriesAndInvestments ==
    /\ lpc = "getCategories"
    /\ lpc' = "process"
    /\ UNCHANGED <<appVars, store, loaded, outcome, writes, loading, electron,
                   calls, adopted>>

\* processRecurringTransactions(loadedTransactions, loadedRecurring) and the
\* test of addedCount
process ==
    /\ lpc = "process"
    /\ \E r \in {processRecurringTransactions(loaded.transactions,
                                              loaded.recurring, today, nextId)} :
           /\ outcome' = [called |-> TRUE, result |-> r]
           /\ nextId' = r.idCounter
           /\ lpc' = IF r.addedCount > 0 THEN "saveTransactions" ELSE "adopt"
    /\ calls' = calls + 1
    /\ UNCHANGED <<today, transactions, recurring, editingConfig, origin, last, ops,
                   store, loaded, writes, loading, electron, adopted>>

\* saveTransactions / saveRecurringConfigs: window.electronAPI.saveData
\* sends the write, localStorage.setItem performs it or throws.
save(key, data, then) ==
    IF electron THEN
        /\ writes' = Append(writes, [key |-> key, data |-> data, status |-> "pending"])
        /\ lpc' = then
        /\ UNCHANGED store
    ELSE
        \/ /\ store' = [store EXCEPT ![key] = data]
           /\ writes' = Append(writes, [key |-> key, data |-> data, status |-> "done"])
           /\ lpc' = then
        \/ /\ writes' = Append(writes, [key |-> key, data |-> data, status |-> "threw"])
           /\ lpc' = "catch"
           /\ UNCHANGED store

\* await saveTransactions(updatedTransactions)
saveTransactions ==
    /\ lpc = "saveTransactions"
    /\ save(STORAGE_KEY_TRANSACTIONS, outcome.result.updatedTransactions,
            "saveRecurringConfigs")
    /\ UNCHANGED <<appVars, loaded, outcome, loading, electron, calls, adopted>>

\* await saveRecurringConfigs(updatedRecurring), once the ledger write has
\* been awaited
saveRecurringConfigs ==
    /\ lpc = "saveRecurringConfigs"
    /\ allAwaited
    /\ save(STORAGE_KEY_RECURRING, outcome.result.updatedRecurring, "adopt")
    /\ UNCHANGED <<appVars, loaded, outcome, loading, electron, calls, adopted>>

\* ipcMain.handle('save-data'): the file is rewritten and the promise
\* resolves to true, or the write fails and it resolves to false.
saveData ==
    \E k \in 1..Len(writes) :
        /\ writes[k].status = "pending"
        /\ \/ /\ store' = [store EXCEPT ![writes[k].key] = writes[k].data]
              /\ writes' = [writes EXCEPT ![k].status = "done"]
           \/ /\ writes' = [writes EXCEPT ![k].status = "failed"]
              /\ UNCHANGED store
        /\ UNCHANGED <<appVars, lpc, loaded, outcome, loading, electron, calls, adopted>>

\* setTransactions(updatedTransactions); setRecurring(updatedRecurring),
\* once the writes issued have been awaited
adopt ==
    /\ lpc = "adopt"
    /\ allAwaited
    /\ transactions' = outcome.result.updatedTransactions
    /\ recurring' = outcome.result.updatedRecurring
    /\ adopted' = TRUE
    /\ lpc' = "finally"
    /\ UNCHANGED <<today, editingConfig, nextId, origin, last, ops,
                   store, loaded, outcome, writes, loading, electron, calls>>

\* catch (error): only the categories are set
catch ==
    /\ lpc = "catch"
    /\ lpc' = "finally"
    /\ UNCHANGED <<appVars, store, loaded, outcome, writes, loading, electron,
                   calls, adopted>>

\* finally: setLoading(false)
finally ==
    /\ lpc = "finally"
    /\ loading' = FALSE
    /\ lpc' = "done"
    /\ UNCHANGED <<appVars, store, loaded, outcome, writes, electron, calls, adopted>>

NextLoad ==
    \/ (getTransactions /\ UNCHANGED <<dateVars, investVars>>)
    \/ (getRecurringConfigs /\ UNCHANGED <<dateVars, investVars>>)
    \/ (getCategoriesAndInvestments /\ UNCHANGED <<dateVars, investVars>>)
    \/ (process /\ UNCHANGED <<dateVars, investVars>>)
    \/ (saveTransactions /\ UNCHANGED <<dateVars, investVars>>)
    \/ (saveRecurringConfigs /\ UNCHANGED <<dateVars, investVars>>)
    \/ (saveData /\ UNCHANGED <<dateVars, investVars>>)
    \/ (adopt /\ UNCHANGED <<dateVars, investVars>>)
    \/ (catch /\ UNCHANGED <<dateVars, investVars>>)
    \/ (finally /\ UNCHANGED <<dateVars, investVars>>)

SpecLoad == InitLoad /\ [][NextLoad]_vars

(***************************************************************************)
(* The application closed and opened again on the same day: App.tsx mounts *)
(* afresh and its effect runs loadData over what the store holds.          *)
(***************************************************************************)

\* Bound of the model: startups that reach the materializer.
MaxStartups == 2

\* The window is closed, at any point of loadData, and the application is
\* started again: the React state is the initial one, a write that has
\* not reached the file does not reach it, the store keeps what it holds.
restart ==
    /\ calls < MaxStartups
    /\ lpc # "getTransactions"
    /\ transactions' = <<>>
    /\ recurring' = <<>>
    /\ editingConfig' = NoConfig
    /\ loaded' = [transactions |-> <<>>, recurring |-> <<>>]
    /\ outcome' = NoCall
    /\ writes' = <<>>
    /\ loading' = TRUE
    /\ adopted' = FALSE
    /\ lpc' = "getTransactions"
    /\ UNCHANGED <<today, nextId, origin, last, ops, store, electron, calls>>

NextRestart ==
    \/ NextLoad
    \/ (restart /\ UNCHANGED <<dateVars, investVars>>)

SpecRestart == InitLoad /\ [][NextRestart]_vars

(***************************************************************************)
(* The date round trip: a valid calendar date is formatted day-first,      *)
(* converted to the year-first form, and both texts are parsed back.       *)
(***************************************************************************)

\* Years and days of the dates put through the round trip.
RoundTripYears == {1000, 1900, 2023, 2024, 9999}
RoundTripDays == {1, 9, 10, 28, 29, 30, 31}

ValidDates(years, days) ==
    {dt \in [y : years, m : 0..11, d : days] : dt.d <= DaysInMonth(dt.y, dt.m)}

InitDate ==
    /\ AppIdle
    /\ LoadIdle
    /\ InvestIdle
    /\ dpc = "start"
    /\ dDate \in ValidDates(RoundTripYears, RoundTripDays)
    /\ dStr = <<>>
    /\ dIso = <<>>
    /\ dBack = InvalidDate
    /\ dIsoBack = InvalidDate
    /\ engine = InvalidDate

FormatStep ==
    /\ dpc = "start"
    /\ dStr' = formatDateToDDMMYYYY(dDate)
    /\ dpc' = "formatted"
    /\ UNCHANGED <<dDate, dIso, dBack, dIsoBack, engine>>
    /\ UNCHANGED <<appVars, loadVars, investVars>>

ToISOStep ==
    /\ dpc = "formatted"
    /\ dIso' = ddmmyyyyToISO(dStr)
    /\ dpc' = "converted"
    /\ UNCHANGED <<dDate, dStr, dBack, dIsoBack, engine>>
    /\ UNCHANGED <<appVars, loadVars, investVars>>

ParseStep ==
    /\ dpc = "converted"
    /\ dBack' = parseToDate(dStr)
    /\ dIsoBack' = parseToDate(dIso)
    /\ dpc' = "parsed"
    /\ UNCHANGED <<dDate, dStr, dIso, engine>>
    /\ UNCHANGED <<appVars, loadVars, investVars>>

NextDate == FormatStep \/ ToISOStep \/ ParseStep

SpecDate == InitDate /\ [][NextDate]_vars

(***************************************************************************)
(* parseToDate on arbitrary text: day-first and year-first texts, in and   *)
(* out of the calendar's range, with and without a continuation, and text  *)
(* of neither form.                                                        *)
(***************************************************************************)

Text(str) == CASE str = "" -> <<>>
               [] str = "T" -> <<"T">>
               [] str = "T1" -> <<"T", "1", "0", ":", "3", "0">>
               [] str = "b1" -> <<" ", "1", "0", ":", "3", "0">>
               [] str = "5" -> <<"5">>
               [] str = "-7" -> <<"-", "0", "7">>
               [] str = "-" -> <<"-">>
               [] str = "--" -> <<"-", "-">>
               [] str = "b" -> <<" ">>
               [] str = "2024" -> <<"2", "0", "2", "4">>
               [] str = "0050" -> <<"0", "0", "5", "0">>
               [] str = "20244" -> <<"2", "0", "2", "4", "4">>
               [] str = "00" -> <<"0", "0">>
               [] str = "01" -> <<"0", "1">>
               [] str = "02" -> <<"0", "2">>
               [] str = "12" -> <<"1", "2">>
               [] str = "15" -> <<"1", "5">>
               [] str = "31" -> <<"3", "1">>
               [] str = "99" -> <<"9", "9">>
               [] str = "1" -> <<"1">>

\* The fields the texts are put together from.
ParseYears == {Text("2024"), Text("0050")}
ParseMonths == {Text("00"), Text("01"), Text("02"), Text("12")}
ParseDays == {Text("01"), Text("15"), Text("31"), Text("99")}

\* What may follow a year-first date: nothing, a time after "T", a time
\* after a blank, one more digit, a further hyphenated field.
Continuations == {Text(""), Text("T"), Text("T1"), Text("b1"), Text("5"), Text("-7")}

DayFirstTexts ==
    {d \o <<"-">> \o m \o <<"-">> \o y :
        d \in ParseDays, m \in ParseMonths, y \in ParseYears}

YearFirstTexts ==
    {y \o <<"-">> \o m \o <<"-">> \o d \o c :
        y \in ParseYears, m \in ParseMonths, d \in ParseDays, c \in Continuations}

\* Text of neither form: empty, without a digit, or with fields of other
\* widths.
OtherTexts ==
    {Text(""), Text("-"), Text("--"), Text("T"), Text("b"), Text("2024"),
     Text("2024") \o Text("-") \o Text("1"),
     Text("15") \o Text("-") \o Text("1") \o Text("-") \o Text("2024"),
     Text("15") \o Text("-") \o Text("01") \o Text("-") \o Text("20244"),
     Text("15") \o Text("-") \o Text("01") \o Text("-") \o Text("2024") \o Text("T1")}

ParseInputs == DayFirstTexts \cup YearFirstTexts \cup OtherTexts

\* What an engine may make of text outside the standard format.
EngineAnswers == {InvalidDate, [y |-> 2001, m |-> 0, d |-> 1]}

InitParse ==
    /\ AppIdle
    /\ LoadIdle
    /\ InvestIdle
    /\ dpc = "given"
    /\ dStr \in ParseInputs
    /\ engine \in EngineAnswers
    /\ dDate = InvalidDate
    /\ dIso = <<>>
    /\ dBack = InvalidDate
    /\ dIsoBack = InvalidDate

\* One call parseToDate(dStr).
ParseText ==
    /\ dpc = "given"
    /\ dBack' = parseToDate(dStr)
    /\ dpc' = "returned"
    /\ UNCHANGED <<dDate, dStr, dIso, dIsoBack, engine>>
    /\ UNCHANGED <<appVars, loadVars, investVars>>

NextParse == ParseText

SpecParse == InitParse /\ [][NextParse]_vars

(***************************************************************************)
(* Record entry: the transaction form of TransactionList, and the          *)
(* investment form, the funds modal and the sell modal of Investments,     *)
(* between start-ups that materialize. Every save reaches the storage.     *)
(***************************************************************************)

\* Bound of the model: records saved by the user.
MaxSaves == 2

\* The dates the application is started on here: before and after the
\* nominal day of the recurring definition.
EntryDates == {dt \in StartDates : dt.y = 2024 /\ dt.m = 1 /\ dt.d <= 20}

\* The dates the user picks in a date input: a leap day, and a day of a
\* year typed with one digit too many.
PickerDates ==
    { [y |-> 2024, m |-> 1, d |-> 29], [y |-> 20244, m |-> 0, d |-> 15] }

PickerValues == {toISODate(date) : date \in PickerDates}

\* What the user types into the investment form.
InvestInputs ==
    { [symbol |-> "aapl", quantity |-> Num(10), pricePerUnit |-> Num(100),
       currency |-> "USD"],
      [symbol |-> "TEVA", quantity |-> Num(4), pricePerUnit |-> Num(73),
       currency |-> "ILS"] }

\* String.prototype.toUpperCase on the symbols of the model.
toUpperCase(symbol) == IF symbol = "aapl" THEN "AAPL" ELSE symbol

\* A valid date string of HTML: a year of four or more digits, a month and
\* a day of that month, each of two digits.
IsValidDateString(value) ==
    LET p == split(value, "-")
    IN /\ Len(p) = 3
       /\ Len(p[1]) >= 4 /\ Len(p[2]) = 2 /\ Len(p[3]) = 2
       /\ \A k \in 1..3 : \A i \in 1..Len(p[k]) : IsDigit(p[k][i])
       /\ Number(p[1]) > 0
       /\ Number(p[2]) \in 1..12
       /\ Number(p[3]) \in 1..DaysInMonth(Number(p[1]), Number(p[2]) - 1)

\* <input type="date" required value={...}>: the value the element holds is
\* the given one when that is a valid date string and empty otherwise; a
\* form with an empty required input is not submitted.
dateInput(value) == IF IsValidDateString(value) THEN value ELSE <<>>

\* The state a mounted TransactionForm starts from, and is reset to.
txFormReset(now) ==
    [id |-> 0, date |-> toISODate(now), amount |-> 0, type |-> "EXPENSE",
     category |-> "Rent", description |-> "", isRecurring |-> FALSE]

\* The state the investment form starts from, and is reset to.
invFormReset(now) ==
    [id |-> 0, symbol |-> "", type |-> "BUY", assetType |-> "STOCK",
     quantity |-> Num(0), pricePerUnit |-> Num(0), currency |-> "USD",
     date |-> toISODate(now)]

\* The page of the given path mounts with its initial state; the component
\* of the other page is gone.
Mounted(path, now) ==
    /\ route' = path
    /\ invFormData' = IF path = "/investments" THEN invFormReset(now) ELSE NoTx
    /\ isFormOpen' = FALSE
    /\ fundsDate' = IF path = "/investments" THEN toISODate(now) ELSE <<>>
    /\ sellModalSymbol' = ""
    /\ txFormData' = IF path = "/transactions" THEN txFormReset(now) ELSE NoTx
    /\ editingTransaction' = NoTx

Routes == {"/transactions", "/investments"}

OnTransactions == route = "/transactions"

\* The investments page with none of its modals over it.
OnInvestments == route = "/investments" /\ ~isFormOpen /\ sellModalSymbol = ""

InitEntry ==
    /\ DateIdle
    /\ LoadIdle
    /\ \E dt \in StartDates :
           /\ \A other \in StartDates \ {dt} : Before(DateOf(dt), DateOf(other))
           /\ today = DateOf(dt)
    /\ transactions = <<>>
    /\ recurring = << [FreshForm(FormKind("EXPENSE"), 15, TRUE) EXCEPT !.id = 1] >>
    /\ editingConfig = NoConfig
    /\ nextId = 1
    /\ origin = {}
    /\ last = NoCall
    /\ ops = <<>>
    /\ investments = <<>>
    /\ route = "/transactions"
    /\ invFormData = NoTx
    /\ isFormOpen = FALSE
    /\ fundsDate = <<>>
    /\ sellModalSymbol = ""
    /\ txFormData = txFormReset(today)
    /\ editingTransaction = NoTx
    /\ saves = 0
    /\ exchangeRate = Ratio(73, 20)
    /\ prices = {}
    /\ displayCurrency = "ILS"
    /\ FoldIdle
    /\ ChartIdle
    /\ RestIdle

\* The application is started: loadData materializes and the components
\* mount.
StartupEntry ==
    /\ \E dt \in EntryDates, path \in Routes :
           /\ ~Before(DateOf(dt), today)
           /\ Materialize(DateOf(dt))
           /\ Mounted(path, DateOf(dt))
    /\ UNCHANGED <<investments, saves, foldVars>>

\* The user goes to the other page.
navigate ==
    /\ \E path \in Routes \ {route} : Mounted(path, today)
    /\ UNCHANGED <<appVars, investments, saves, foldVars>>

\* App.handleSaveTransaction
handleSaveTransaction(tx) ==
    /\ transactions' = upsert(transactions, tx)
    /\ saves' = saves + 1

\* App.handleSaveInvestment
handleSaveInvestment(inv) ==
    /\ investments' = upsert(investments, inv)
    /\ saves' = saves + 1

\* TransactionList.handleEdit, and the effect of TransactionForm on its
\* initialData.
handleEditTx ==
    /\ OnTransactions
    /\ \E i \in 1..Len(transactions) :
           /\ editingTransaction # transactions[i]
           /\ editingTransaction' = transactions[i]
           /\ txFormData' = [transactions[i] EXCEPT
                                 !.date = normalizeToISO(transactions[i].date)]
    /\ UNCHANGED <<appVars, route, investments, invFormData, isFormOpen, fundsDate,
                   sellModalSymbol, saves, foldVars>>

\* The date and amount inputs of TransactionForm.
typeTx ==
    /\ OnTransactions
    /\ saves < MaxSaves
    /\ \E value \in PickerValues, amount \in {40} :
           /\ txFormData.date # value \/ txFormData.amount # amount
           /\ txFormData' = [txFormData EXCEPT !.date = value, !.amount = amount]
    /\ UNCHANGED <<appVars, route, investments, invFormData, isFormOpen, fundsDate,
                   sellModalSymbol, editingTransaction, saves, foldVars>>

\* TransactionForm.validate
validateTx(data) ==
    /\ data.amount > 0
    /\ Len(data.date) # 0

\* TransactionForm.handleSubmit, through TransactionList.handleSave.
handleSubmitTx ==
    /\ OnTransactions
    /\ saves < MaxSaves
    /\ dateInput(txFormData.date) # <<>>
    /\ validateTx(txFormData)
    /\ handleSaveTransaction(
           [id          |-> IF txFormData.id = 0 THEN generateId(nextId)
                            ELSE txFormData.id,
            date        |-> isoToDDMMYYYY(txFormData.date),
            amount      |-> txFormData.amount,
            type        |-> txFormData.type,
            category    |-> txFormData.category,
            description |-> txFormData.description,
            isRecurring |-> txFormData.isRecurring])
    /\ nextId' = IF txFormData.id = 0 THEN generateId(nextId) ELSE nextId
    /\ txFormData' = txFormReset(today)
    /\ editingTransaction' = NoTx
    /\ UNCHANGED <<today, recurring, editingConfig, origin, last, ops>>
    /\ UNCHANGED <<route, investments, invFormData, isFormOpen, fundsDate,
                   sellModalSymbol, foldVars>>

\* The date input of the funds modal.
pickFundsDate ==
    /\ OnInvestments
    /\ saves < MaxSaves
    /\ \E value \in PickerValues : fundsDate # value /\ fundsDate' = value
    /\ UNCHANGED <<appVars, route, investments, invFormData, isFormOpen,
                   sellModalSymbol, txFormData, editingTransaction, saves, foldVars>>

\* Investments.handleAddFunds
handleAddFunds ==
    /\ OnInvestments
    /\ saves < MaxSaves
    /\ dateInput(fundsDate) # <<>>
    /\ \E fundsAmount \in {500} :
           handleSaveTransaction(
               [id          |-> generateId(nextId),
                date        |-> isoToDDMMYYYY(fundsDate),
                amount      |-> fundsAmount,
                type        |-> "EXPENSE",
                category    |-> "Investment",
                description |-> "depositToInvestments",
                isRecurring |-> FALSE])
    /\ nextId' = generateId(nextId)
    /\ UNCHANGED <<today, recurring, editingConfig, origin, last, ops>>
    /\ UNCHANGED <<route, investments, invFormData, isFormOpen, fundsDate,
                   sellModalSymbol, txFormData, editingTransaction, foldVars>>

\* The button that opens the investment form for a new record.
openForm ==
    /\ OnInvestments
    /\ saves < MaxSaves
    /\ invFormData' = invFormReset(today)
    /\ isFormOpen' = TRUE
    /\ UNCHANGED <<appVars, route, investments, fundsDate, sellModalSymbol,
                   txFormData, editingTransaction, saves, foldVars>>

\* Investments.handleEditTransaction
handleEditTransaction ==
    /\ OnInvestments
    /\ saves < MaxSaves
    /\ \E i \in 1..Len(investments) : invFormData' = investments[i]
    /\ isFormOpen' = TRUE
    /\ UNCHANGED <<appVars, route, investments, fundsDate, sellModalSymbol,
                   txFormData, editingTransaction, saves, foldVars>>

\* Investments.handleQuickBuy
handleQuickBuy ==
    /\ OnInvestments
    /\ saves < MaxSaves
    /\ \E asset \in {portfolio(investments, exchangeRate, prices)[i] :
                        i \in 1..Len(portfolio(investments, exchangeRate, prices))} :
           invFormData' =
               [id |-> 0, symbol |-> asset.symbol, type |-> "BUY",
                assetType |-> asset.assetType, quantity |-> Num(0),
                pricePerUnit |-> Num(0), currency |-> "USD",
                date |-> isoToDDMMYYYY(toISODate(today))]
    /\ isFormOpen' = TRUE
    /\ UNCHANGED <<appVars, route, investments, fundsDate, sellModalSymbol,
                   txFormData, editingTransaction, saves, foldVars>>

\* The symbol, quantity, price and currency inputs of the investment form.
typeInvestment ==
    /\ isFormOpen
    /\ saves < MaxSaves
    /\ \E input \in InvestInputs :
           /\ invFormData.symbol \in {"", input.symbol, toUpperCase(input.symbol)}
           /\ invFormData.quantity # input.quantity
           /\ invFormData' =
                  [invFormData EXCEPT
                      !.symbol = IF @ = "" THEN input.symbol ELSE @,
                      !.quantity = input.quantity,
                      !.pricePerUnit = input.pricePerUnit,
                      !.currency = input.currency]
    /\ UNCHANGED <<appVars, route, investments, isFormOpen, fundsDate,
                   sellModalSymbol, txFormData, editingTransaction, saves, foldVars>>

\* The date input of the investment form.
pickDate ==
    /\ isFormOpen
    /\ saves < MaxSaves
    /\ \E value \in PickerValues :
           /\ invFormData.date # value
           /\ invFormData' = [invFormData EXCEPT !.date = value]
    /\ UNCHANGED <<appVars, route, investments, isFormOpen, fundsDate,
                   sellModalSymbol, txFormData, editingTransaction, saves, foldVars>>

\* Investments.handleSubmit
handleSubmitInvestment ==
    /\ isFormOpen
    /\ saves < MaxSaves
    /\ dateInput(invFormData.date) # <<>>
    /\ invFormData.symbol # ""
    /\ Truthy(invFormData.quantity) /\ Truthy(invFormData.pricePerUnit)
    /\ Len(invFormData.date) # 0
    /\ handleSaveInvestment(
           [id           |-> IF invFormData.id = 0 THEN generateId(nextId)
                             ELSE invFormData.id,
            symbol       |-> toUpperCase(invFormData.symbol),
            type         |-> invFormData.type,
            assetType    |-> invFormData.assetType,
            quantity     |-> invFormData.quantity,
            pricePerUnit |-> invFormData.pricePerUnit,
            currency     |-> invFormData.currency,
            date         |-> isoToDDMMYYYY(invFormData.date)])
    /\ nextId' = IF invFormData.id = 0 THEN generateId(nextId) ELSE nextId
    /\ isFormOpen' = FALSE
    /\ invFormData' = invFormReset(today)
    /\ UNCHANGED <<today, transactions, recurring, editingConfig, origin, last, ops>>
    /\ UNCHANGED <<route, fundsDate, sellModalSymbol, txFormData,
                   editingTransaction, foldVars>>

\* The sell button of a position.
openSell ==
    /\ OnInvestments
    /\ saves < MaxSaves
    /\ \E i \in 1..Len(investments) : sellModalSymbol' = investments[i].symbol
    /\ UNCHANGED <<appVars, route, investments, invFormData, isFormOpen, fundsDate,
                   txFormData, editingTransaction, saves, foldVars>>

\* Investments.handleSellSubmit
handleSellSubmit ==
    /\ sellModalSymbol # ""
    /\ saves < MaxSaves
    /\ \E sellQuantity \in {Num(4)}, sellPrice \in {Num(150)} :
           LET pf == portfolio(investments, exchangeRate, prices)
               asset == pf[indexOf(pf, sellModalSymbol)]
           IN handleSaveInvestment(
                  [id           |-> generateId(nextId),
                   symbol       |-> sellModalSymbol,
                   type         |-> "SELL",
                   assetType    |-> asset.assetType,
                   quantity     |-> sellQuantity,
                   pricePerUnit |-> sellPrice,
                   currency     |-> displayCurrency,
                   date         |-> formatDateToDDMMYYYY(today)])
    /\ nextId' = generateId(nextId)
    /\ sellModalSymbol' = ""
    /\ UNCHANGED <<today, transactions, recurring, editingConfig, origin, last, ops>>
    /\ UNCHANGED <<route, invFormData, isFormOpen, fundsDate, txFormData,
                   editingTransaction, foldVars>>

NextEntry ==
    \/ (StartupEntry /\ UNCHANGED <<dateVars, loadVars, chartVars, restVars>>)
    \/ (navigate /\ UNCHANGED <<dateVars, loadVars, chartVars, restVars>>)
    \/ (handleEditTx /\ UNCHANGED <<dateVars, loadVars, chartVars, restVars>>)
    \/ (typeTx /\ UNCHANGED <<dateVars, loadVars, chartVars, restVars>>)
    \/ (handleSubmitTx /\ UNCHANGED <<dateVars, loadVars, chartVars, restVars>>)
    \/ (pickFundsDate /\ UNCHANGED <<dateVars, loadVars, chartVars, restVars>>)
    \/ (handleAddFunds /\ UNCHANGED <<dateVars, loadVars, chartVars, restVars>>)
    \/ (openForm /\ UNCHANGED <<dateVars, loadVars, chartVars, restVars>>)
    \/ (handleEditTransaction /\ UNCHANGED <<dateVars, loadVars, chartVars, restVars>>)
    \/ (handleQuickBuy /\ UNCHANGED <<dateVars, loadVars, chartVars, restVars>>)
    \/ (typeInvestment /\ UNCHANGED <<dateVars, loadVars, chartVars, restVars>>)
    \/ (pickDate /\ UNCHANGED <<dateVars, loadVars, chartVars, restVars>>)
    \/ (handleSubmitInvestment /\ UNCHANGED <<dateVars, loadVars, chartVars, restVars>>)
    \/ (openSell /\ UNCHANGED <<dateVars, loadVars, chartVars, restVars>>)
    \/ (handleSellSubmit /\ UNCHANGED <<dateVars, loadVars, chartVars, restVars>>)

SpecEntry == InitEntry /\ [][NextEntry]_vars

(***************************************************************************)
(* components/Investments.tsx: AssetGroup and the invested capital of the  *)
(* chart                                                                   *)
(***************************************************************************)

\* asset.currentPrice || asset.avgBuyPrice
priceOf(asset) ==
    IF asset.currentPrice # undefined /\ Truthy(asset.currentPrice)
    THEN asset.currentPrice
    ELSE asset.avgBuyPrice

\* The figures of one asset in assets.map of AssetGroup.
assetRow(asset) ==
    LET marketValueUSD == Times(asset.quantity, priceOf(asset))
        costBasisUSD == Times(asset.quantity, asset.avgBuyPrice)
        totalReturn == Minus(marketValueUSD, costBasisUSD)
    IN [symbol |-> asset.symbol, marketValueUSD |-> marketValueUSD,
        costBasisUSD |-> costBasisUSD, totalReturn |-> totalReturn,
        returnPct |-> IF Positive(costBasisUSD)
                      THEN Times(Over(totalReturn, costBasisUSD), Num(100))
                      ELSE Num(0)]

\* parseToDate(i.date).getTime() <= date.getTime(); false for an invalid
\* date.
notLater(text, date) ==
    LET x == parseToDate(text)
    IN /\ ~IsInvalidDate(x)
       /\ ~IsInvalidDate(date)
       /\ \/ x.y < date.y
          \/ x.y = date.y /\ x.m < date.m
          \/ x.y = date.y /\ x.m = date.m /\ x.d <= date.d

\* tx.quantity * tx.pricePerUnit * (tx.currency === 'ILS' ? (1/exchangeRate) : 1)
cashFlow(tx, rate) ==
    Times(Times(tx.quantity, tx.pricePerUnit),
          IF tx.currency = "ILS" THEN Over(Num(1), rate) ELSE Num(1))

(***************************************************************************)
(* The portfolio engine, step by step: the memo sorts the ledger and folds *)
(* it event by event, the quotes are attached, AssetGroup computes the     *)
(* figures of each position, and the chart accumulates the invested        *)
(* capital at one timestamp.                                               *)
(***************************************************************************)

\* Bound of the model: events in the investment ledger.
MaxEvents == 3

StockEvent(id, symbol, type, quantity, price, currency, date) ==
    [id |-> id, symbol |-> symbol, type |-> type, assetType |-> "STOCK",
     quantity |-> Num(quantity), pricePerUnit |-> Num(price),
     currency |-> currency, date |-> date]

\* The events the ledgers are made of: two symbols, two currencies, two
\* events of one day, a sale that closes a position and a purchase after
\* it, a sale dated before every purchase, and one date kept year-first.
FoldEvents ==
    { StockEvent(1, "AAPL", "BUY", 10, 100, "USD",
                 formatDateToDDMMYYYY(NewDate(2024, 1, 1))),
      StockEvent(2, "AAPL", "BUY", 10, 200, "USD",
                 formatDateToDDMMYYYY(NewDate(2024, 1, 5))),
      StockEvent(3, "AAPL", "SELL", 4, 150, "USD",
                 formatDateToDDMMYYYY(NewDate(2024, 1, 5))),
      StockEvent(4, "TEVA", "BUY", 4, 73, "ILS",
                 formatDateToDDMMYYYY(NewDate(2024, 1, 3))),
      StockEvent(5, "AAPL", "SELL", 10, 90, "USD",
                 toISODate(NewDate(2024, 1, 10))),
      StockEvent(6, "TEVA", "SELL", 4, 146, "ILS",
                 formatDateToDDMMYYYY(NewDate(2024, 0, 20))),
      StockEvent(7, "AAPL", "BUY", 5, 120, "USD",
                 formatDateToDDMMYYYY(NewDate(2024, 1, 12))) }

\* The ledgers of at most n events, no event twice.
RECURSIVE Ledgers(_)
Ledgers(n) ==
    IF n = 0 THEN {<<>>}
    ELSE LET shorter == Ledgers(n - 1)
             longest == {l \in shorter : Len(l) = n - 1}
         IN shorter \cup
            UNION { { Append(l, e) :
                        e \in {x \in FoldEvents :
                                  \A i \in 1..Len(l) : l[i] # x} } :
                    l \in longest }

\* The quotes refreshPrices has stored: none, one for each symbol, and the
\* zero the quote service answers for a symbol it has no price for.
FoldQuotes ==
    { {},
      {<<"AAPL", Num(150)>>, <<"TEVA", Num(25)>>},
      {<<"AAPL", Num(0)>>} }

\* The dates of the chart's timestamp.
FoldTimestamps == {NewDate(2024, 1, 4), NewDate(2024, 2, 1)}

InitFold ==
    /\ DateIdle
    /\ AppIdle
    /\ LoadIdle
    /\ route = "/investments"
    /\ investments \in Ledgers(MaxEvents)
    /\ invFormData = NoTx
    /\ isFormOpen = FALSE
    /\ fundsDate = <<>>
    /\ sellModalSymbol = ""
    /\ txFormData = NoTx
    /\ editingTransaction = NoTx
    /\ saves = 0
    /\ exchangeRate = Ratio(73, 20)
    /\ prices \in FoldQuotes
    /\ displayCurrency = "USD"
    /\ fpc = "memo"
    /\ sortedInvestments = <<>>
    /\ cursor = 0
    /\ groups = <<>>
    /\ rows = <<>>
    /\ asOf \in FoldTimestamps
    /\ historic = 0
    /\ totalInvested = Num(0)
    /\ val = Num(0)
    /\ ChartIdle
    /\ RestIdle

\* const sortedInvestments = [...investments].sort(...)
sortInvestments ==
    /\ fpc = "memo"
    /\ sortedInvestments' = sort(investments)
    /\ groups' = <<>>
    /\ cursor' = 0
    /\ fpc' = "forEach"
    /\ UNCHANGED <<entryVars, exchangeRate, prices, displayCurrency, rows,
                   asOf, historic, totalInvested, val>>

\* One turn of sortedInvestments.forEach.
forEachStep ==
    /\ fpc = "forEach"
    /\ cursor < Len(sortedInvestments)
    /\ groups' = applyTx(groups, sortedInvestments[cursor + 1], exchangeRate)
    /\ cursor' = cursor + 1
    /\ UNCHANGED <<entryVars, exchangeRate, prices, displayCurrency, fpc,
                   sortedInvestments, rows, asOf, historic, totalInvested,
                   val>>

\* Attach current price if exists; the memo returns Object.values(groups).
attachCurrentPrices ==
    /\ fpc = "forEach"
    /\ cursor = Len(sortedInvestments)
    /\ groups' = attachPrices(groups, prices)
    /\ fpc' = "portfolio"
    /\ UNCHANGED <<entryVars, exchangeRate, prices, displayCurrency,
                   sortedInvestments, cursor, rows, asOf, historic,
                   totalInvested, val>>

\* AssetGroup renders the positions.
AssetGroup ==
    /\ fpc = "portfolio"
    /\ rows' = [i \in 1..Len(groups) |-> assetRow(groups[i])]
    /\ fpc' = "rendered"
    /\ UNCHANGED <<entryVars, exchangeRate, prices, displayCurrency,
                   sortedInvestments, cursor, groups, asOf, historic,
                   totalInvested, val>>

\* One event of the ledger in the invested capital of the timestamp:
\* historicTxs is the ledger filtered by date, in the ledger's order.
historicStep ==
    /\ fpc = "rendered"
    /\ historic < Len(investments)
    /\ historic' = historic + 1
    /\ LET tx == investments[historic + 1]
       IN IF notLater(tx.date, asOf)
          THEN /\ val' = cashFlow(tx, exchangeRate)
               /\ totalInvested' =
                      IF tx.type = "BUY"
                      THEN Plus(totalInvested, cashFlow(tx, exchangeRate))
                      ELSE Minus(totalInvested, cashFlow(tx, exchangeRate))
          ELSE UNCHANGED <<val, totalInvested>>
    /\ UNCHANGED <<entryVars, exchangeRate, prices, displayCurrency, fpc,
                   sortedInvestments, cursor, groups, rows, asOf>>

\* The invested capital of the timestamp is complete.
historicDone ==
    /\ fpc = "rendered"
    /\ historic = Len(investments)
    /\ fpc' = "charted"
    /\ UNCHANGED <<entryVars, exchangeRate, prices, displayCurrency,
                   sortedInvestments, cursor, groups, rows, asOf, historic,
                   totalInvested, val>>

NextFold ==
    \/ (sortInvestments /\ UNCHANGED <<dateVars, appVars, loadVars, chartVars, restVars>>)
    \/ (forEachStep /\ UNCHANGED <<dateVars, appVars, loadVars, chartVars, restVars>>)
    \/ (attachCurrentPrices /\ UNCHANGED <<dateVars, appVars, loadVars, chartVars, restVars>>)
    \/ (AssetGroup /\ UNCHANGED <<dateVars, appVars, loadVars, chartVars, restVars>>)
    \/ (historicStep /\ UNCHANGED <<dateVars, appVars, loadVars, chartVars, restVars>>)
    \/ (historicDone /\ UNCHANGED <<dateVars, appVars, loadVars, chartVars, restVars>>)

SpecFold == InitFold /\ [][NextFold]_vars

(***************************************************************************)
(* components/Investments.tsx: the chart. The chart effect starts          *)
(* generateChartData when the page mounts and whenever the range or the    *)
(* benchmark changes; every invocation works with the selection it was     *)
(* started with, waits for its fetches and then stores its series. The     *)
(* fetches of several invocations return in any order, each with data or   *)
(* with none. Of a point of the series only the date and the benchmark     *)
(* return are kept here.                                                   *)
(***************************************************************************)

\* Bound of the model: invocations of generateChartData.
MaxRuns == 3

\* fetchStockCandles returns null
null == <<>>

\* The ranges and benchmarks the user selects here.
TimeRanges == {"1Y", "1M"}

Benchmarks == {"SPY", "QQQ"}

\* What the quote service answers with s = 'ok' for a symbol over a range:
\* the timestamps and the closing prices.
CandleData(symbol, range) ==
    LET t == IF range = "1M" THEN <<1, 2>> ELSE <<1, 2, 3>>
        c == IF symbol = "SPY" THEN <<Num(400), Num(420), Num(440)>>
             ELSE <<Num(300), Num(330), Num(360)>>
    IN [s |-> "ok", t |-> t, c |-> SubSeq(c, 1, Len(t))]

\* timestamps.forEach: one point for every timestamp of the benchmark.
historyPoints(benchmarkData) ==
    [index \in 1..Len(benchmarkData.t) |->
        LET benchmarkStartPrice == benchmarkData.c[1]
        IN [date |-> benchmarkData.t[index],
            benchmarkReturn |->
                Times(Over(Minus(benchmarkData.c[index], benchmarkStartPrice),
                           benchmarkStartPrice), Num(100))]]

InitChart ==
    /\ DateIdle
    /\ AppIdle
    /\ LoadIdle
    /\ FoldIdle
    /\ RestIdle
    /\ route = "/investments"
    /\ investments \in {<<e>> : e \in {x \in FoldEvents : x.id = 1}}
    /\ invFormData = NoTx
    /\ isFormOpen = FALSE
    /\ fundsDate = <<>>
    /\ sellModalSymbol = ""
    /\ txFormData = NoTx
    /\ editingTransaction = NoTx
    /\ saves = 0
    /\ exchangeRate = Ratio(73, 20)
    /\ prices = {}
    /\ displayCurrency = "USD"
    /\ apiKey \in {"", "key"}
    /\ timeRange = "1Y"
    /\ benchmarkSymbol = "SPY"
    /\ chartData = <<>>
    /\ isLoadingChart = FALSE
    /\ effectDue = TRUE
    /\ runs = {}
    /\ started = 0
    /\ completed = <<>>

\* The chart effect with the given selection: generateChartData up to its
\* first await.
chartEffect(range, benchmark) ==
    IF apiKey # "" /\ Len(investments) > 0
    THEN /\ isLoadingChart' = TRUE
         /\ runs' = runs \cup {[id |-> started + 1, timeRange |-> range,
                                benchmarkSymbol |-> benchmark]}
         /\ started' = started + 1
    ELSE UNCHANGED <<isLoadingChart, runs, started>>

\* The effect of the mount.
mountEffect ==
    /\ effectDue
    /\ effectDue' = FALSE
    /\ chartEffect(timeRange, benchmarkSymbol)
    /\ UNCHANGED <<apiKey, timeRange, benchmarkSymbol, chartData, completed>>

\* onClick of a range button, and the effect of the render that follows.
setTimeRange ==
    /\ ~effectDue
    /\ started < MaxRuns
    /\ \E r \in TimeRanges \ {timeRange} :
           /\ timeRange' = r
           /\ chartEffect(r, benchmarkSymbol)
    /\ UNCHANGED <<apiKey, benchmarkSymbol, chartData, effectDue, completed>>

\* onChange of the benchmark select, and the effect of the render that
\* follows.
setBenchmarkSymbol ==
    /\ ~effectDue
    /\ started < MaxRuns
    /\ \E b \in Benchmarks \ {benchmarkSymbol} :
           /\ benchmarkSymbol' = b
           /\ chartEffect(timeRange, b)
    /\ UNCHANGED <<apiKey, timeRange, chartData, effectDue, completed>>

\* The fetches of one invocation have returned and generateChartData runs
\* to its end: without benchmark data it returns, with it it stores the
\* series.
generateChartData ==
    \E run \in runs :
        \E benchmarkData \in {null, CandleData(run.benchmarkSymbol, run.timeRange)} :
            /\ runs' = runs \ {run}
            /\ completed' = Append(completed, [run |-> run, data |-> benchmarkData])
            /\ chartData' = IF benchmarkData = null THEN chartData
                            ELSE historyPoints(benchmarkData)
            /\ isLoadingChart' = FALSE
            /\ UNCHANGED <<apiKey, timeRange, benchmarkSymbol, effectDue, started>>

NextChart ==
    \/ (mountEffect /\ UNCHANGED <<dateVars, appVars, loadVars, entryVars, foldVars, restVars>>)
    \/ (setTimeRange /\ UNCHANGED <<dateVars, appVars, loadVars, entryVars, foldVars, restVars>>)
    \/ (setBenchmarkSymbol /\ UNCHANGED <<dateVars, appVars, loadVars, entryVars, foldVars, restVars>>)
    \/ (generateChartData /\ UNCHANGED <<dateVars, appVars, loadVars, entryVars, foldVars, restVars>>)

SpecChart == InitChart /\ [][NextChart]_vars

(***************************************************************************)
(* components/Investments.tsx: the series of generateChartData. One        *)
(* invocation whose benchmark fetch returned data: the candles of the held *)
(* stock symbols arrive, each fetch with data or with none, and the        *)
(* timestamps of the benchmark are turned into points one by one. A        *)
(* timestamp is the calendar date it falls on.                             *)
(***************************************************************************)

\* Number.prototype.toFixed(2) read back by parseFloat: the nearest
\* multiple of 1/100.
toFixed2(x) ==
    IF ~IsFinite(x) THEN NotFinite
    ELSE LET hundredths == (2 * Abs(x.n) * 100 + x.d) \div (2 * x.d)
         IN Ratio(IF x.n < 0 THEN 0 - hundredths ELSE hundredths, 100)

\* a || b
OrElse(a, b) == IF a # undefined /\ Truthy(a) THEN a ELSE b

\* x > 0, for a value that may be undefined
GreaterThanZero(x) == x # undefined /\ Positive(x)

\* c[index] of a JavaScript array, with the indices counted from 1.
elementAt(c, k) == IF k \in 1..Len(c) THEN c[k] ELSE undefined

\* Array.from(new Set(investments.filter(STOCK).map(symbol))): the stock
\* symbols in the order they first appear.
RECURSIVE uniqueSymbols(_)
uniqueSymbols(list) ==
    IF Len(list) = 0 THEN <<>>
    ELSE LET before == uniqueSymbols(SubSeq(list, 1, Len(list) - 1))
             tx == list[Len(list)]
         IN IF tx.assetType = "STOCK"
               /\ \A i \in 1..Len(before) : before[i] # tx.symbol
            THEN Append(before, tx.symbol)
            ELSE before

\* Get price at this time: the k-th timestamp.
priceAt(map, sym, k) ==
    IF sym \in DOMAIN map
    THEN OrElse(elementAt(map[sym].c, k),
                IF k > 1 THEN elementAt(map[sym].c, k - 1) ELSE Num(0))
    ELSE Num(0)

\* Calculate quantity held at this date.
RECURSIVE qtyAt(_, _, _)
qtyAt(list, sym, date) ==
    IF Len(list) = 0 THEN Num(0)
    ELSE LET acc == qtyAt(SubSeq(list, 1, Len(list) - 1), sym, date)
             curr == list[Len(list)]
         IN IF curr.symbol = sym /\ notLater(curr.date, date)
            THEN IF curr.type = "BUY" THEN Plus(acc, curr.quantity)
                 ELSE Minus(acc, curr.quantity)
            ELSE acc

\* Mutant: a symbol without candles counts at the price of its purchase.
addedValueAtCost(list, map, sym, k, date) ==
    LET qty == qtyAt(list, sym, date)
    IN IF sym \in DOMAIN map
       THEN IF Positive(qty) /\ GreaterThanZero(priceAt(map, sym, k))
            THEN Times(qty, priceAt(map, sym, k)) ELSE Num(0)
       ELSE Times(qty, Num(100))

\* What one symbol adds to portfolioValue at the k-th timestamp.
addedValue(list, map, sym, k, date) ==
    LET price == priceAt(map, sym, k)
        qty == qtyAt(list, sym, date)
    IN IF Positive(qty) /\ GreaterThanZero(price)
       THEN Times(qty, price) ELSE Num(0)

\* uniqueSymbols.forEach: portfolioValue at the k-th timestamp.
RECURSIVE portfolioValueAt(_, _, _, _, _)
portfolioValueAt(list, map, symbols, k, date) ==
    IF Len(symbols) = 0 THEN Num(0)
    ELSE Plus(portfolioValueAt(list, map, SubSeq(symbols, 1, Len(symbols) - 1),
                               k, date),
              addedValue(list, map, symbols[Len(symbols)], k, date))

\* historicTxs.forEach: the invested capital at a date.
RECURSIVE totalInvestedAt(_, _, _)
totalInvestedAt(list, rate, date) ==
    IF Len(list) = 0 THEN Num(0)
    ELSE LET acc == totalInvestedAt(SubSeq(list, 1, Len(list) - 1), rate, date)
             tx == list[Len(list)]
         IN IF notLater(tx.date, date)
            THEN IF tx.type = "BUY" THEN Plus(acc, cashFlow(tx, rate))
                 ELSE Minus(acc, cashFlow(tx, rate))
            ELSE acc

\* The point pushed for the k-th timestamp.
historyPoint(list, rate, benchmarkData, map, k) ==
    LET date == benchmarkData.t[k]
        portfolioValue == portfolioValueAt(list, map, uniqueSymbols(list), k, date)
        invested == totalInvestedAt(list, rate, date)
        portfolioReturn ==
            IF Positive(invested)
            THEN Times(Over(Minus(portfolioValue, invested), invested), Num(100))
            ELSE Num(0)
        benchmarkStartPrice == benchmarkData.c[1]
        benchmarkReturn ==
            Times(Over(Minus(benchmarkData.c[k], benchmarkStartPrice),
                       benchmarkStartPrice), Num(100))
    IN [date |-> toISODate(date),
        portfolioReturn |-> toFixed2(portfolioReturn),
        benchmarkReturn |-> toFixed2(benchmarkReturn),
        portfolioValue |-> toFixed2(portfolioValue)]

\* Bound of the model: events in the ledger the series is computed from.
MaxHeld == 3

\* The events of the ledgers: purchases in two currencies, a sale, a sale
\* dated before every purchase, and a holding that is not a stock.
SeriesEvents ==
    {e \in FoldEvents : e.id \in {1, 3, 4, 6}} \cup
    { [id |-> 8, symbol |-> "BTC", type |-> "BUY", assetType |-> "CRYPTO",
       quantity |-> Num(1), pricePerUnit |-> Num(500), currency |-> "USD",
       date |-> formatDateToDDMMYYYY(NewDate(2024, 1, 2))] }

RECURSIVE SeriesLedgers(_)
SeriesLedgers(n) ==
    IF n = 0 THEN {<<>>}
    ELSE LET shorter == SeriesLedgers(n - 1)
             longest == {l \in shorter : Len(l) = n - 1}
         IN shorter \cup
            UNION { { Append(l, e) :
                        e \in {x \in SeriesEvents :
                                  \A i \in 1..Len(l) : l[i] # x} } :
                    l \in longest }

\* The timestamps of the benchmark and its closing prices.
SeriesBenchmark ==
    [s |-> "ok",
     t |-> <<NewDate(2024, 1, 2), NewDate(2024, 1, 4), NewDate(2024, 1, 6)>>,
     c |-> <<Num(400), Num(420), Num(441)>>]

\* What the fetch of a symbol's candles returns: nothing, a sample for
\* every timestamp, or a series that ends one or two samples early.
SeriesAnswers(sym) ==
    LET c == IF sym = "AAPL" THEN <<Num(110), Num(120), Num(130)>>
             ELSE <<Num(20), Num(22), Num(24)>>
    IN {null} \cup {[s |-> "ok", c |-> SubSeq(c, 1, n)] : n \in 1..3}

InitSeries ==
    /\ DateIdle
    /\ AppIdle
    /\ LoadIdle
    /\ FoldIdle
    /\ ChartIdle
    /\ LaterIdle
    /\ route = "/investments"
    /\ investments \in SeriesLedgers(MaxHeld) \ {<<>>}
    /\ invFormData = NoTx
    /\ isFormOpen = FALSE
    /\ fundsDate = <<>>
    /\ sellModalSymbol = ""
    /\ txFormData = NoTx
    /\ editingTransaction = NoTx
    /\ saves = 0
    /\ exchangeRate = Ratio(73, 20)
    /\ prices = {}
    /\ displayCurrency = "USD"
    /\ spc = "fetch"
    /\ benchmarkCandles = SeriesBenchmark
    /\ stockDataMap = <<>>
    /\ tsIndex = 0
    /\ historyPts = <<>>
    /\ locals = <<>>

\* await Promise.all(uniqueSymbols.map(...)): if (data) stockDataMap[sym] = data
fetchStockCandles ==
    /\ spc = "fetch"
    /\ LET symbols == uniqueSymbols(investments)
           held == {symbols[i] : i \in 1..Len(symbols)}
       IN \E answer \in [held -> UNION {SeriesAnswers(sym) : sym \in held} \cup {null}] :
              /\ \A sym \in held : answer[sym] \in SeriesAnswers(sym)
              /\ stockDataMap' =
                     [sym \in {x \in held : answer[x] # null} |-> answer[sym]]
    /\ spc' = "forEach"
    /\ UNCHANGED <<benchmarkCandles, tsIndex, historyPts, locals>>

\* One turn of timestamps.forEach.
timestampStep ==
    /\ spc = "forEach"
    /\ tsIndex < Len(benchmarkCandles.t)
    /\ tsIndex' = tsIndex + 1
    /\ historyPts' = Append(historyPts,
                            historyPoint(investments, exchangeRate,
                                         benchmarkCandles, stockDataMap,
                                         tsIndex + 1))
    /\ LET k == tsIndex + 1
           date == benchmarkCandles.t[k]
           symbols == uniqueSymbols(investments)
       IN locals' = Append(locals,
              [portfolioValue |->
                   portfolioValueAt(investments, stockDataMap, symbols, k, date),
               totalInvested |-> totalInvestedAt(investments, exchangeRate, date),
               price |-> [i \in 1..Len(symbols) |->
                             priceAt(stockDataMap, symbols[i], k)],
               added |-> [i \in 1..Len(symbols) |->
                             addedValue(investments, stockDataMap, symbols[i],
                                        k, date)]])
    /\ UNCHANGED <<spc, benchmarkCandles, stockDataMap>>

\* setChartData(historyPoints)
setChartData ==
    /\ spc = "forEach"
    /\ tsIndex = Len(benchmarkCandles.t)
    /\ chartData' = historyPts
    /\ spc' = "done"
    /\ UNCHANGED <<benchmarkCandles, stockDataMap, tsIndex, historyPts, locals>>

NextSeries ==
    \/ (fetchStockCandles
          /\ UNCHANGED <<dateVars, appVars, loadVars, entryVars, foldVars, chartVars,
                         laterVars>>)
    \/ (timestampStep
          /\ UNCHANGED <<dateVars, appVars, loadVars, entryVars, foldVars, chartVars,
                         laterVars>>)
    \/ (setChartData
          /\ UNCHANGED <<dateVars, appVars, loadVars, entryVars, foldVars,
                         apiKey, timeRange, benchmarkSymbol, isLoadingChart,
                         effectDue, runs, started, completed, laterVars>>)

SpecSeries == InitSeries /\ [][NextSeries]_vars

(***************************************************************************)
(* components/CategoryManager.tsx with App.handleUpdateCategories: labels  *)
(* are added, deleted and dragged to another place in the list of the      *)
(* active tab. While an item is dragged the browser delivers drag events   *)
(* only.                                                                   *)
(***************************************************************************)

\* useState<number | null>(null): no item is dragged.
noIndex == 0 - 1

\* What the user types into the input: labels, one of them with blanks
\* around it, and blanks alone.
TypedTexts ==
    { <<"R">>, <<" ", "R", " ">>, <<"F">>, <<"S">>, <<" ">> }

\* currentList
currentList(cats, tab) == IF tab = "INCOME" THEN cats.income ELSE cats.expense

\* { ...categories, [income or expense]: updatedList }
updatedCategories(cats, tab, updatedList) ==
    IF tab = "INCOME" THEN [cats EXCEPT !.income = updatedList]
    ELSE [cats EXCEPT !.expense = updatedList]

\* Array.prototype.includes
includes(list, label) == \E i \in 1..Len(list) : list[i] = label

\* Mutant: the text is compared as typed, and added trimmed.
acceptedComparingUntrimmed(list, text) ==
    Len(trim(text)) > 0 /\ ~includes(list, text)

\* handleAdd goes on to add the text: it is not blank and its trimmed
\* form is not in the list.
accepted(list, text) ==
    Len(trim(text)) > 0 /\ ~includes(list, trim(text))

\* currentList.filter(c => c !== category)
RECURSIVE without(_, _)
without(list, category) ==
    IF Len(list) = 0 THEN <<>>
    ELSE IF Head(list) = category THEN without(Tail(list), category)
    ELSE <<Head(list)>> \o without(Tail(list), category)

\* updatedList.splice(from, 1)[0] and updatedList.splice(to, 0, item), with
\* the indices counted from 0: an index beyond the list removes nothing
\* and inserts undefined.
moved(list, from, to) ==
    LET item == IF from < Len(list) THEN list[from + 1] ELSE undefined
        rest == IF from < Len(list)
                THEN SubSeq(list, 1, from) \o SubSeq(list, from + 2, Len(list))
                ELSE list
        at == IF to < Len(rest) THEN to ELSE Len(rest)
    IN SubSeq(rest, 1, at) \o <<item>> \o SubSeq(rest, at + 1, Len(rest))

InitCategories ==
    /\ DateIdle
    /\ AppIdle
    /\ LoadIdle
    /\ PagesIdle
    /\ SeriesIdle
    /\ AvgIdle
    /\ categories = [income |-> << <<"S">> >>, expense |-> << <<"R">>, <<"F">> >>]
    /\ newCategory = <<>>
    /\ activeTab = "EXPENSE"
    /\ error = ""
    /\ draggedItemIndex = noIndex
    /\ lastOp = [op |-> "none"]

\* onClick of a tab
setActiveTab ==
    /\ draggedItemIndex = noIndex
    /\ \E tab \in {"EXPENSE", "INCOME"} : activeTab' = tab
    /\ error' = ""
    /\ UNCHANGED <<categories, newCategory, draggedItemIndex, lastOp>>

\* onChange of the input
setNewCategory ==
    /\ draggedItemIndex = noIndex
    /\ \E text \in TypedTexts : newCategory' = text
    /\ error' = ""
    /\ UNCHANGED <<categories, activeTab, draggedItemIndex, lastOp>>

\* onSubmit of the form; the button is disabled while the text is blank
handleAdd ==
    /\ draggedItemIndex = noIndex
    /\ Len(trim(newCategory)) > 0
    /\ LET list == currentList(categories, activeTab)
       IN /\ lastOp' = [op |-> "add", label |-> trim(newCategory), before |-> list]
          /\ IF accepted(list, newCategory)
             THEN /\ categories' = updatedCategories(categories, activeTab,
                                       Append(list, trim(newCategory)))
                  /\ newCategory' = <<>>
                  /\ error' = ""
             ELSE /\ error' = "categoryExists"
                  /\ UNCHANGED <<categories, newCategory>>
    /\ UNCHANGED <<activeTab, draggedItemIndex>>

\* onClick of the delete button of a label
handleDelete ==
    /\ draggedItemIndex = noIndex
    /\ LET list == currentList(categories, activeTab)
       IN \E i \in 1..Len(list) :
              /\ categories' = updatedCategories(categories, activeTab,
                                                 without(list, list[i]))
              /\ lastOp' = [op |-> "delete", label |-> list[i], before |-> list]
    /\ UNCHANGED <<newCategory, activeTab, error, draggedItemIndex>>

handleDragStart ==
    /\ draggedItemIndex = noIndex
    /\ \E index \in 0..(Len(currentList(categories, activeTab)) - 1) :
           draggedItemIndex' = index
    /\ UNCHANGED <<categories, newCategory, activeTab, error, lastOp>>

handleDragOver ==
    /\ draggedItemIndex # noIndex
    /\ LET list == currentList(categories, activeTab)
       IN \E index \in (0..(Len(list) - 1)) \ {draggedItemIndex} :
              /\ categories' = updatedCategories(categories, activeTab,
                                   moved(list, draggedItemIndex, index))
              /\ draggedItemIndex' = index
              /\ lastOp' = [op |-> "reorder", label |-> <<>>, before |-> list]
    /\ UNCHANGED <<newCategory, activeTab, error>>

handleDragEnd ==
    /\ draggedItemIndex # noIndex
    /\ draggedItemIndex' = noIndex
    /\ UNCHANGED <<categories, newCategory, activeTab, error, lastOp>>

NextCategories ==
    \/ (setActiveTab /\ UNCHANGED <<dateVars, appVars, loadVars, entryVars, foldVars, chartVars, seriesVars, avgVars>>)
    \/ (setNewCategory /\ UNCHANGED <<dateVars, appVars, loadVars, entryVars, foldVars, chartVars, seriesVars, avgVars>>)
    \/ (handleAdd /\ UNCHANGED <<dateVars, appVars, loadVars, entryVars, foldVars, chartVars, seriesVars, avgVars>>)
    \/ (handleDelete /\ UNCHANGED <<dateVars, appVars, loadVars, entryVars, foldVars, chartVars, seriesVars, avgVars>>)
    \/ (handleDragStart /\ UNCHANGED <<dateVars, appVars, loadVars, entryVars, foldVars, chartVars, seriesVars, avgVars>>)
    \/ (handleDragOver /\ UNCHANGED <<dateVars, appVars, loadVars, entryVars, foldVars, chartVars, seriesVars, avgVars>>)
    \/ (handleDragEnd /\ UNCHANGED <<dateVars, appVars, loadVars, entryVars, foldVars, chartVars, seriesVars, avgVars>>)

SpecCategories == InitCategories /\ [][NextCategories]_vars

(***************************************************************************)
(* App.tsx: the save and delete handlers of the three lists of the         *)
(* application state, called with any entity and any id. The copy they     *)
(* write to the storage is the list they set.                              *)
(***************************************************************************)

\* The ids the entities saved and deleted carry.
ListIds == {1, 2}

\* The entities the handlers are called with.
SavedTransactions ==
    { [ManualTx EXCEPT !.id = k, !.amount = a] : k \in ListIds, a \in {12, 40} }

SavedConfigs ==
    { [FreshForm(FormKind("EXPENSE"), 15, active) EXCEPT !.id = k] :
        k \in ListIds, active \in BOOLEAN }

SavedInvestments ==
    { [e EXCEPT !.id = k] : k \in ListIds, e \in {x \in FoldEvents : x.id \in {1, 3}} }

\* The lists of entities of a set in which no id is twice.
UniqueLists(entities) ==
    {<<>>} \cup { <<e>> : e \in entities }
           \cup { <<pair[1], pair[2]>> :
                     pair \in {q \in entities \X entities : q[1].id # q[2].id} }

\* App.handleDeleteTransaction
handleDeleteTransaction(id) ==
    /\ transactions' = removeById(transactions, id)

\* App.handleDeleteInvestment
handleDeleteInvestment(id) ==
    /\ investments' = removeById(investments, id)

InitLists ==
    /\ DateIdle
    /\ LoadIdle
    /\ today = InvalidDate
    /\ transactions \in UniqueLists(SavedTransactions)
    /\ recurring \in UniqueLists(SavedConfigs)
    /\ editingConfig = NoConfig
    /\ nextId = 0
    /\ origin = {}
    /\ last = NoCall
    /\ ops = <<>>
    /\ ChartIdle
    /\ route = "/"
    /\ investments \in UniqueLists(SavedInvestments)
    /\ invFormData = NoTx
    /\ isFormOpen = FALSE
    /\ fundsDate = <<>>
    /\ sellModalSymbol = ""
    /\ txFormData = NoTx
    /\ editingTransaction = NoTx
    /\ saves = 0
    /\ exchangeRate = Num(0)
    /\ prices = {}
    /\ displayCurrency = "USD"
    /\ FoldIdle
    /\ SeriesIdle
    /\ AvgIdle
    /\ categories = [income |-> <<>>, expense |-> <<>>]
    /\ newCategory = <<>>
    /\ activeTab = "EXPENSE"
    /\ error = ""
    /\ draggedItemIndex = noIndex
    /\ lastOp = [op |-> "none"]

\* The frame of the handlers of the lists.
ListsFrame ==
    UNCHANGED <<dateVars, loadVars, today, editingConfig, nextId, origin, last, ops,
                route, invFormData, isFormOpen, fundsDate, sellModalSymbol,
                txFormData, editingTransaction, foldVars, chartVars, seriesVars,
                categories, newCategory, activeTab, error, draggedItemIndex,
                avgVars>>

SaveTransaction ==
    /\ saves < MaxSaves
    /\ \E tx \in SavedTransactions :
           /\ handleSaveTransaction(tx)
           /\ lastOp' = [op |-> "handleSaveTransaction", arg |-> tx]
    /\ UNCHANGED <<recurring, investments>>
    /\ ListsFrame

DeleteTransaction ==
    /\ \E id \in ListIds :
           /\ handleDeleteTransaction(id)
           /\ lastOp' = [op |-> "handleDeleteTransaction", arg |-> id]
    /\ UNCHANGED <<recurring, investments, saves>>
    /\ ListsFrame

SaveRecurring ==
    /\ saves < MaxSaves
    /\ \E conf \in SavedConfigs :
           /\ handleSaveRecurring(conf)
           /\ lastOp' = [op |-> "handleSaveRecurring", arg |-> conf]
    /\ saves' = saves + 1
    /\ UNCHANGED <<transactions, investments>>
    /\ ListsFrame

DeleteRecurring ==
    /\ \E id \in ListIds :
           /\ recurring' = removeById(recurring, id)
           /\ lastOp' = [op |-> "handleDeleteRecurring", arg |-> id]
    /\ UNCHANGED <<transactions, investments, saves>>
    /\ ListsFrame

SaveInvestment ==
    /\ saves < MaxSaves
    /\ \E inv \in SavedInvestments :
           /\ handleSaveInvestment(inv)
           /\ lastOp' = [op |-> "handleSaveInvestment", arg |-> inv]
    /\ UNCHANGED <<transactions, recurring>>
    /\ ListsFrame

DeleteInvestment ==
    /\ \E id \in ListIds :
           /\ handleDeleteInvestment(id)
           /\ lastOp' = [op |-> "handleDeleteInvestment", arg |-> id]
    /\ UNCHANGED <<transactions, recurring, saves>>
    /\ ListsFrame

NextLists ==
    \/ SaveTransaction
    \/ DeleteTransaction
    \/ SaveRecurring
    \/ DeleteRecurring
    \/ SaveInvestment
    \/ DeleteInvestment

SpecLists == InitLists /\ [][NextLists]_vars

(***************************************************************************)
(* The average monthly income and expense, as the stats memo of Insights   *)
(* and the averages memo of the Dashboard compute them from the ledger.    *)
(***************************************************************************)

\* reduce((sum, t) => sum + t.amount, 0) over the transactions of a type
RECURSIVE total(_, _)
total(list, type) ==
    IF Len(list) = 0 THEN 0
    ELSE total(Tail(list), type)
             + (IF Head(list).type = type THEN Head(list).amount ELSE 0)

\* Math.max(a, b)
max(a, b) == IF a >= b THEN a ELSE b

\* t.date.substring(0, 7)
substring07(text) == SubSeq(text, 1, IF Len(text) < 7 THEN Len(text) ELSE 7)

\* Insights: new Set(transactions.map(t => t.date.substring(0, 7)))
insightsMonths(list) ==
    {substring07(list[i].date) : i \in 1..Len(list)}

\* Insights: the stats memo (the two averages)
insightsStats(list) ==
    IF Len(list) = 0 THEN null
    ELSE LET monthCount == max(Cardinality(insightsMonths(list)), 1)
         IN [avgIncome  |-> Over(Num(total(list, "INCOME")), Num(monthCount)),
             avgExpense |-> Over(Num(total(list, "EXPENSE")), Num(monthCount))]

\* Dashboard: `${d.getFullYear()}-${pad(d.getMonth() + 1)}` of parseToDate
uniqueMonths(list) ==
    { LET d == parseToDate(list[i].date)
      IN toString(d.y) \o <<"-">> \o pad(d.m + 1) : i \in 1..Len(list) }

\* Dashboard: the averages memo
dashboardAverages(list) ==
    IF Len(list) = 0 THEN [income |-> Num(0), expense |-> Num(0)]
    ELSE LET monthCount == max(Cardinality(uniqueMonths(list)), 1)
         IN [income  |-> Over(Num(total(list, "INCOME")), Num(monthCount)),
             expense |-> Over(Num(total(list, "EXPENSE")), Num(monthCount))]

\* Bound of the model: transactions in the ledger the averages are taken of.
MaxLedger == 3

\* The transactions the ledgers are made of.
LedgerPool ==
    { [ManualTx EXCEPT !.id = 11, !.date = formatDateToDDMMYYYY(NewDate(2024, 1, 15)),
                       !.type = "EXPENSE", !.amount = 40],
      [ManualTx EXCEPT !.id = 12, !.date = formatDateToDDMMYYYY(NewDate(2024, 1, 20)),
                       !.type = "INCOME", !.amount = 75],
      [ManualTx EXCEPT !.id = 13, !.date = formatDateToDDMMYYYY(NewDate(2024, 2, 15)),
                       !.type = "EXPENSE", !.amount = 12],
      [ManualTx EXCEPT !.id = 14, !.date = formatDateToDDMMYYYY(NewDate(2025, 1, 15)),
                       !.type = "INCOME", !.amount = 30],
      [ManualTx EXCEPT !.id = 15, !.date = formatDateToDDMMYYYY(NewDate(2024, 2, 1)),
                       !.type = "INCOME", !.amount = 75] }

\* The ledgers of at most n transactions of the pool, none twice.
RECURSIVE AverageLedgers(_)
AverageLedgers(n) ==
    IF n = 0 THEN {<<>>}
    ELSE LET shorter == AverageLedgers(n - 1)
             longest == {l \in shorter : Len(l) = n - 1}
         IN shorter \cup
            UNION { { Append(l, e) :
                        e \in {x \in LedgerPool :
                                  \A i \in 1..Len(l) : l[i] # x} } :
                    l \in longest }

InitAverages ==
    /\ DateIdle
    /\ LoadIdle
    /\ InvestIdle
    /\ today = InvalidDate
    /\ transactions \in AverageLedgers(MaxLedger)
    /\ recurring = <<>>
    /\ editingConfig = NoConfig
    /\ nextId = 0
    /\ origin = {}
    /\ last = NoCall
    /\ ops = <<>>

\* Insights is rendered: useMemo(..., [transactions])
Insights ==
    /\ stats = unrendered
    /\ stats' = insightsStats(transactions)
    /\ UNCHANGED <<dateVars, appVars, loadVars, entryVars, foldVars, chartVars,
                   seriesVars, catVars, averages>>

\* The Dashboard is rendered: useMemo(..., [transactions])
Dashboard ==
    /\ averages = unrendered
    /\ averages' = dashboardAverages(transactions)
    /\ UNCHANGED <<dateVars, appVars, loadVars, entryVars, foldVars, chartVars,
                   seriesVars, catVars, stats>>

NextAverages ==
    \/ Insights
    \/ Dashboard

SpecAverages == InitAverages /\ [][NextAverages]_vars

(***************************************************************************)
(* Properties                                                              *)
(***************************************************************************)

\* The (year, month) a date text denotes.
MonthOf(text) == LET date == parseToDate(text) IN <<date.y, date.m>>

\* The definition a materialized transaction was built from.
OriginOf(id) == (CHOOSE p \in origin : p[1] = id)[2]

\* The transactions the latest invocation appended, in order.
Appended ==
    SubSeq(last.result.updatedTransactions,
           Len(last.input.transactions) + 1,
           Len(last.result.updatedTransactions))

\* How many transactions the latest invocation built from definition id.
AppendedFor(id) ==
    Cardinality({k \in 1..Len(last.result.origins) : last.result.origins[k][2] = id})

\* C1: over sessions with non-decreasing dates, each materializing on what
\* the previous one left, with the user editing, toggling, adding and
\* deleting definitions in between, the ledger never holds two materialized
\* transactions of the same definition dated in the same (year, month).
C1_OnePerDefinitionPerMonth ==
    \A i, j \in 1..Len(transactions) :
        ( /\ i < j
          /\ transactions[i].isRecurring
          /\ transactions[j].isRecurring
          /\ OriginOf(transactions[i].id) = OriginOf(transactions[j].id) )
        => MonthOf(transactions[i].date) # MonthOf(transactions[j].date)

\* C1 witness: a definition materialized in two different months, with user
\* operations on the definitions in between and a start-up repeated since.
C1_Witness ==
    /\ Len(ops) > 0
    /\ last.called /\ last.repeat
    /\ \E i, j \in 1..Len(transactions) :
           /\ i < j
           /\ transactions[i].isRecurring /\ transactions[j].isRecurring
           /\ OriginOf(transactions[i].id) = OriginOf(transactions[j].id)
           /\ MonthOf(transactions[i].date) # MonthOf(transactions[j].date)

\* C2: an invocation that repeats the previous one (same date, fed the
\* previous outputs untouched) adds nothing and returns ledger and
\* definitions equal to what it was given.
C2_SecondInvocationIsNoOp ==
    (last.called /\ last.repeat) =>
        /\ last.result.addedCount = 0
        /\ last.result.updatedTransactions = last.input.transactions
        /\ last.result.updatedRecurring = last.input.recurring

\* C2 witness: the repeated invocation follows one that materialized in the
\* current month for a definition that is still active.
C2_Witness ==
    /\ last.called /\ last.repeat
    /\ \E i \in 1..Len(recurring) :
           /\ recurring[i].active
           /\ recurring[i].lastProcessedDate # undefined
           /\ MonthOf(recurring[i].lastProcessedDate) = <<today.y, today.m>>
           /\ \E k \in 1..Len(transactions) :
                  /\ transactions[k].isRecurring
                  /\ OriginOf(transactions[k].id) = recurring[i].id
                  /\ transactions[k].date = recurring[i].lastProcessedDate

\* C3: an invocation appends exactly one transaction for an active
\* definition when the day of the month has reached dayOfMonth and the
\* marker is absent or lies in another (year, month), and none otherwise.
C3_DueExactlyWhen ==
    last.called =>
        \A i \in 1..Len(last.input.recurring) :
            LET config == last.input.recurring[i]
                reached == last.now.d >= config.dayOfMonth
                unprocessed ==
                    \/ config.lastProcessedDate = undefined
                    \/ MonthOf(config.lastProcessedDate) # <<last.now.y, last.now.m>>
            IN config.active =>
                   AppendedFor(config.id) = (IF reached /\ unprocessed THEN 1 ELSE 0)

\* C3 witness: nominal day 15 materialized in month M; on day 16 of month
\* M+1 exactly one more transaction is appended.
C3_Witness ==
    /\ last.called
    /\ last.now = [y |-> 2024, m |-> 2, d |-> 16]
    /\ \E i \in 1..Len(last.input.recurring) :
           LET config == last.input.recurring[i]
           IN /\ config.active
              /\ config.dayOfMonth = 15
              /\ config.lastProcessedDate = formatDateToDDMMYYYY(NewDate(2024, 1, 15))
              /\ AppendedFor(config.id) = 1

\* C4: an inactive definition produces no transaction and is returned
\* unchanged, marker included.
C4_InactiveSuppressed ==
    last.called =>
        \A i \in 1..Len(last.input.recurring) :
            ~last.input.recurring[i].active =>
                /\ AppendedFor(last.input.recurring[i].id) = 0
                /\ last.result.updatedRecurring[i] = last.input.recurring[i]

\* C4 witness: an inactive definition that would be due if it were active.
C4_Witness ==
    /\ last.called
    /\ \E i \in 1..Len(last.input.recurring) :
           LET config == last.input.recurring[i]
           IN /\ ~config.active
              /\ config.lastProcessedDate = undefined
              /\ last.now.d >= config.dayOfMonth

\* C5: every appended transaction is dated (today.year, today.month,
\* dayOfMonth of its definition), copies amount, type and category, is
\* flagged isRecurring, and its date is the returned definition's marker.
C5_MaterializedShape ==
    last.called =>
        \A k \in 1..Len(last.result.origins) :
            LET tx == Appended[k]
                i == CHOOSE n \in 1..Len(last.input.recurring) :
                         last.input.recurring[n].id = last.result.origins[k][2]
                config == last.input.recurring[i]
            IN /\ tx.id = last.result.origins[k][1]
               /\ parseToDate(tx.date) =
                      [y |-> last.now.y, m |-> last.now.m, d |-> config.dayOfMonth]
               /\ tx.amount = config.amount
               /\ tx.type = config.type
               /\ tx.category = config.category
               /\ tx.isRecurring = TRUE
               /\ last.result.updatedRecurring[i].lastProcessedDate = tx.date

\* C5 witness: a transaction appended on a day later than the nominal day.
C5_Witness ==
    /\ last.called
    /\ \E k \in 1..Len(last.result.origins) :
           /\ last.result.origins[k][2] = 1
           /\ parseToDate(Appended[k].date).d < last.now.d

\* The definitions whose marker the latest invocation changed.
MarkerChanged ==
    {i \in 1..Len(last.input.recurring) :
         last.result.updatedRecurring[i].lastProcessedDate
             # last.input.recurring[i].lastProcessedDate}

\* C6: addedCount is the number of appended transactions and the number of
\* definitions whose marker changed; with addedCount 0 both outputs equal
\* the inputs; the input ledger is a prefix of the output ledger, the
\* definitions keep order and ids, and the argument arrays are not mutated.
C6_CountAndFrame ==
    last.called =>
        LET r == last.result
            inTx == last.input.transactions
            inRec == last.input.recurring
        IN /\ r.addedCount = Len(r.updatedTransactions) - Len(inTx)
           /\ r.addedCount = Cardinality(MarkerChanged)
           /\ r.addedCount = 0 =>
                  (r.updatedTransactions = inTx /\ r.updatedRecurring = inRec)
           /\ Len(r.updatedTransactions) >= Len(inTx)
           /\ SubSeq(r.updatedTransactions, 1, Len(inTx)) = inTx
           /\ Len(r.updatedRecurring) = Len(inRec)
           /\ \A i \in 1..Len(inRec) : r.updatedRecurring[i].id = inRec[i].id
           /\ r.transactions = inTx
           /\ r.recurring = inRec

\* C6 witness: two definitions materialized by one invocation on a
\* non-empty ledger.
C6_Witness ==
    /\ last.called
    /\ Len(last.input.transactions) > 0
    /\ last.result.addedCount = 2

\* C7: a materialized transaction is dated on a valid calendar day of
\* today's (year, month); the nominal day never rolls over into the
\* following month.
C7_NoRollover ==
    last.called =>
        \A k \in 1..Len(Appended) :
            LET date == parseToDate(Appended[k].date)
            IN /\ ~IsInvalidDate(date)
               /\ date.y = last.now.y
               /\ date.m = last.now.m
               /\ date.d \in 1..DaysInMonth(last.now.y, last.now.m)
               /\ Appended[k].date =
                      pad(date.d) \o <<"-">> \o pad(last.now.m + 1) \o <<"-">>
                          \o toString(last.now.y)

\* C7 witness: nominal day 29 materialized on the last day of a leap
\* February.
C7_Witness ==
    /\ last.called
    /\ last.now = [y |-> 2024, m |-> 1, d |-> 29]
    /\ \E i \in 1..Len(last.input.recurring) :
           /\ last.input.recurring[i].dayOfMonth = 29
           /\ AppendedFor(last.input.recurring[i].id) = 1

\* A step of the user on the definitions: a form submit, a toggle of
\* active, or a delete.
UserStep == ops' # ops

\* No user step changes the marker of a definition that exists before and
\* after it.
MarkersKept ==
    \A i \in 1..Len(recurring), j \in 1..Len(recurring') :
        recurring[i].id = recurring'[j].id =>
            recurring'[j].lastProcessedDate = recurring[i].lastProcessedDate

\* A start-up does not materialize again a definition whose marker lies in
\* the current (year, month), whatever the user did to it since.
NoSecondThisMonth ==
    last.called =>
        \A i \in 1..Len(last.input.recurring) :
            LET config == last.input.recurring[i]
            IN ( /\ config.lastProcessedDate # undefined
                 /\ MonthOf(config.lastProcessedDate) = <<last.now.y, last.now.m>> )
               => /\ AppendedFor(config.id) = 0
                  /\ last.result.updatedRecurring[i] = config

\* C8: no user operation on the definitions (form edit, toggle of active,
\* save) changes the lastProcessedDate of an existing definition, and so a
\* definition deactivated and re-activated within a month in which it was
\* materialized is not materialized a second time that month.
C8_UserOpsKeepMarker ==
    [][UserStep => MarkersKept]_vars /\ []NoSecondThisMonth

\* C8 witness: a definition materialized this month, then toggled off and
\* on again, and a start-up in the same month that appends nothing for it.
C8_Witness ==
    /\ last.called
    /\ Len(ops) = 2
    /\ ops[1][1] = "toggle" /\ ops[2][1] = "toggle"
    /\ ops[1][2] = ops[2][2]
    /\ ops[1][3] # undefined /\ ops[2][3] = ops[1][3]
    /\ MonthOf(ops[1][3]) = <<last.now.y, last.now.m>>
    /\ \E i \in 1..Len(last.input.recurring) :
           LET config == last.input.recurring[i]
           IN /\ config.id = ops[1][2]
              /\ config.active
              /\ config.lastProcessedDate = ops[1][3]
              /\ last.now.d >= config.dayOfMonth
              /\ AppendedFor(config.id) = 0

\* The positions of loadData before processRecurringTransactions returns.
BeforeProcess == {"getTransactions", "getRecurringConfigs", "getCategories", "process"}

C10_DateRoundTrip ==
    dpc = "parsed" => (dBack = dDate /\ dIsoBack = dDate)

\* C10 witness: the leap day, through both texts.
C10_Witness ==
    /\ dpc = "parsed"
    /\ dDate = [y |-> 2024, m |-> 1, d |-> 29]
    /\ dStr = <<"2", "9", "-", "0", "2", "-", "2", "0", "2", "4">>
    /\ dIso = <<"2", "0", "2", "4", "-", "0", "2", "-", "2", "9">>

\* The date the first ten characters of a day-first text denote.
DayFirst(s) ==
    NewDate(DigitsValue(SubSeq(s, 7, 10)), DigitsValue(SubSeq(s, 4, 5)) - 1,
            DigitsValue(SubSeq(s, 1, 2)))

\* The date the first ten characters of a year-first text denote.
YearFirst(s) ==
    NewDate(DigitsValue(SubSeq(s, 1, 4)), DigitsValue(SubSeq(s, 6, 7)) - 1,
            DigitsValue(SubSeq(s, 9, 10)))

IsDateValue(date) ==
    \/ date = InvalidDate
    \/ date.y \in Int /\ date.m \in 0..11 /\ date.d \in 1..31

NoDigit(s) == \A i \in 1..Len(s) : ~IsDigit(s[i])

C12_PersistedDatesDayFirst ==
    /\ \A i \in 1..Len(transactions) : MatchesDDMMYYYY(transactions[i].date)
    /\ \A i \in 1..Len(investments) : MatchesDDMMYYYY(investments[i].date)

\* The event of the pool with the given id.
Ev(k) == CHOOSE e \in FoldEvents : e.id = k

\* The position of a symbol in a list of groups; the empty position when
\* the symbol has no group yet.
Held(list, symbol) ==
    IF \E i \in 1..Len(list) : list[i].symbol = symbol
    THEN list[CHOOSE i \in 1..Len(list) : list[i].symbol = symbol]
    ELSE [symbol |-> symbol, quantity |-> Num(0), avgBuyPrice |-> Num(0),
          totalInvested |-> Num(0)]

\* The memo has just folded one event.
Folded == fpc = "forEach" /\ cursor' = cursor + 1

\* The event that step folded.
FoldedTx == sortedInvestments[cursor + 1]

\* The price of an event in USD at the rate in force.
Normalized(tx) ==
    IF tx.currency = "USD" THEN tx.pricePerUnit
    ELSE Ratio(tx.pricePerUnit.n * exchangeRate.d,
               tx.pricePerUnit.d * exchangeRate.n)

\* C13: a BUY of quantity b at normalized price p on a position of quantity
\* q and average cost a gives quantity q + b, an average cost x with
\* x * (q + b) = q * a + b * p when q + b > 0 and the prior average
\* otherwise, and adds b * p to totalInvested; BUY 10 @ 100 then BUY 10 @ 200
\* gives quantity 20 and average cost 150.
C13_BuyWeightedAverage ==
    /\ [][(Folded /\ FoldedTx.type = "BUY") =>
            LET tx == FoldedTx
                old == Held(groups, tx.symbol)
                new == Held(groups', tx.symbol)
                bp == Times(tx.quantity, Normalized(tx))
            IN /\ new.quantity = Plus(old.quantity, tx.quantity)
               /\ IF new.quantity.n > 0
                  THEN Times(new.avgBuyPrice, new.quantity) =
                           Plus(Times(old.quantity, old.avgBuyPrice), bp)
                  ELSE new.avgBuyPrice = old.avgBuyPrice
               /\ new.totalInvested = Plus(old.totalInvested, bp)]_vars
    /\ []((cursor = 2 /\ sortedInvestments = <<Ev(1), Ev(2)>>) =>
            /\ groups[1].quantity = Num(20)
            /\ groups[1].avgBuyPrice = Num(150))

C13_Witness ==
    /\ cursor = 2
    /\ sortedInvestments = <<Ev(1), Ev(2)>>
    /\ groups[1].avgBuyPrice = Num(150)
    /\ groups[1].totalInvested = Num(3000)

\* C14: a SELL of quantity s leaves the average cost as it was, takes s off
\* the quantity and s times the average cost off totalInvested, whatever the
\* sale price; BUY 10 @ 100 then SELL 4 @ 150 gives average cost 100,
\* quantity 6 and totalInvested 600.
C14_SellKeepsAverage ==
    /\ [][(Folded /\ FoldedTx.type = "SELL") =>
            LET tx == FoldedTx
                old == Held(groups, tx.symbol)
                new == Held(groups', tx.symbol)
            IN /\ new.avgBuyPrice = old.avgBuyPrice
               /\ new.quantity = Minus(old.quantity, tx.quantity)
               /\ new.totalInvested =
                      Minus(old.totalInvested,
                            Times(tx.quantity, old.avgBuyPrice))]_vars
    /\ []((cursor = 2 /\ sortedInvestments = <<Ev(1), Ev(3)>>) =>
            /\ groups[1].avgBuyPrice = Num(100)
            /\ groups[1].quantity = Num(6)
            /\ groups[1].totalInvested = Num(600))

C14_Witness ==
    /\ cursor = 2
    /\ sortedInvestments = <<Ev(1), Ev(3)>>
    /\ groups[1].quantity = Num(6)
    /\ groups[1].totalInvested = Num(600)

\* Every figure of every position is a finite number.
WellDefined(list) ==
    \A i \in 1..Len(list) :
        /\ IsFinite(list[i].quantity)
        /\ IsFinite(list[i].avgBuyPrice)
        /\ IsFinite(list[i].totalInvested)

\* C15: a SELL that brings the quantity to exactly zero leaves the average
\* cost at its value before the SELL, and the figures of the position stay
\* finite numbers through the events that follow.
C15_SellToZeroKeepsAverage ==
    /\ [][(Folded /\ FoldedTx.type = "SELL"
              /\ Held(groups', FoldedTx.symbol).quantity = Num(0)) =>
            /\ Held(groups', FoldedTx.symbol).avgBuyPrice =
                   Held(groups, FoldedTx.symbol).avgBuyPrice
            /\ IsFinite(Held(groups', FoldedTx.symbol).avgBuyPrice)]_vars
    /\ []WellDefined(groups)

C15_Witness ==
    /\ cursor = 3
    /\ sortedInvestments = <<Ev(1), Ev(5), Ev(7)>>
    /\ groups[1].quantity = Num(5)
    /\ groups[1].avgBuyPrice = Num(120)

\* The elements of a sequence.
Range(list) == {list[i] : i \in 1..Len(list)}

\* Where an event stands in a ledger.
PlaceIn(list, e) == CHOOSE i \in 1..Len(list) : list[i] = e

\* The calendar date of an event as one number.
DayNumber(e) ==
    LET date == parseToDate(e.date) IN date.y * 10000 + date.m * 100 + date.d

\* Two ledgers of the same events that agree on the order of the events of
\* each day.
SameDayOrder(a, b) ==
    /\ Len(a) = Len(b)
    /\ Range(a) = Range(b)
    /\ \A i, j \in 1..Len(a) :
           (i < j /\ PlaceIn(b, a[i]) > PlaceIn(b, a[j])) =>
               DayNumber(a[i]) # DayNumber(a[j])

\* The orderings of the ledger.
Orderings ==
    LET n == Len(investments)
    IN { [i \in 1..n |-> investments[f[i]]] :
           f \in {g \in [1..n -> 1..n] : \A i, j \in 1..n : g[i] = g[j] => i = j} }

\* Quantity, average cost and totalInvested per symbol.
Figures(list) ==
    { <<list[i].symbol, list[i].quantity, list[i].avgBuyPrice,
        list[i].totalInvested>> : i \in 1..Len(list) }

\* C16: the events are folded in ascending date order, the events of one
\* date in the order of the ledger, and every ordering of the ledger that
\* keeps the order of the events of each date gives the same quantity,
\* average cost and totalInvested per symbol.
C16_StableDateOrder ==
    /\ (fpc = "forEach" /\ cursor = 0) =>
          /\ Range(sortedInvestments) = Range(investments)
          /\ Len(sortedInvestments) = Len(investments)
          /\ \A i, j \in 1..Len(sortedInvestments) :
                 i < j =>
                     /\ DayNumber(sortedInvestments[i]) <=
                            DayNumber(sortedInvestments[j])
                     /\ DayNumber(sortedInvestments[i]) =
                            DayNumber(sortedInvestments[j]) =>
                                PlaceIn(investments, sortedInvestments[i]) <
                                    PlaceIn(investments, sortedInvestments[j])
    /\ fpc = "portfolio" =>
          \A other \in Orderings :
              SameDayOrder(investments, other) =>
                  Figures(portfolio(other, exchangeRate, prices)) =
                      Figures(groups)

C16_Witness ==
    /\ fpc = "portfolio"
    /\ investments = <<Ev(2), Ev(3), Ev(1)>>
    /\ sortedInvestments = <<Ev(1), Ev(2), Ev(3)>>
    /\ groups[1].quantity = Num(16)
    /\ groups[1].avgBuyPrice = Num(150)

C18_ValuationAndReturn ==
    fpc \in {"rendered", "charted"} =>
        \A i \in 1..Len(groups) :
            LET asset == groups[i]
                price == IF asset.currentPrice # undefined
                         THEN asset.currentPrice ELSE asset.avgBuyPrice
                marketValue == Times(asset.quantity, price)
                cost == Times(asset.quantity, asset.avgBuyPrice)
            IN /\ rows[i].marketValueUSD = marketValue
               /\ rows[i].returnPct =
                      IF cost = Num(0) THEN Num(0)
                      ELSE Times(Over(Minus(marketValue, cost), cost), Num(100))

\* An invocation of generateChartData has just finished.
Finished == Len(completed') = Len(completed) + 1

\* C19: when generateChartData runs and the benchmark fetch returns no
\* data, the series is empty after the run: no point of a series computed
\* before stays.
C19_NoDataEmptiesSeries ==
    [][(Finished /\ completed'[Len(completed')].data = null) =>
          chartData' = <<>>]_vars

\* C20: once every invocation in flight has finished, in whatever order
\* (each with data), the series is the one of the latest selection.
C20_LatestSelectionWins ==
    (/\ started > 0
     /\ runs = {}
     /\ \A i \in 1..Len(completed) : completed[i].data # null) =>
        chartData = historyPoints(CandleData(benchmarkSymbol, timeRange))

\* The sum of a sequence of numbers.
RECURSIVE SumOf(_)
SumOf(list) ==
    IF Len(list) = 0 THEN Num(0)
    ELSE Plus(SumOf(SubSeq(list, 1, Len(list) - 1)), list[Len(list)])

\* The symbols generateChartData fetches candles for and values.
Valued == uniqueSymbols(investments)

\* C21: when the fetch of a held symbol returns nothing and the benchmark
\* has data, there is one point for every timestamp of the benchmark, and
\* the symbol adds zero to portfolioValue at every timestamp: portfolioValue
\* is what the symbols with candles add.
C21_FailedSymbolCountsZero ==
    /\ \A k \in 1..Len(locals) :
           /\ \A i \in 1..Len(Valued) :
                  Valued[i] \notin DOMAIN stockDataMap =>
                      locals[k].added[i] = Num(0)
           /\ locals[k].portfolioValue =
                  SumOf([i \in 1..Len(Valued) |->
                            IF Valued[i] \in DOMAIN stockDataMap
                            THEN locals[k].added[i] ELSE Num(0)])
           /\ historyPts[k].portfolioValue = locals[k].portfolioValue
    /\ spc = "done" => Len(chartData) = Len(benchmarkCandles.t)

C21_Witness ==
    /\ spc = "done"
    /\ Valued = <<"AAPL", "TEVA">>
    /\ DOMAIN stockDataMap = {"TEVA"}
    /\ Len(stockDataMap["TEVA"].c) = 3
    /\ Len(chartData) = 3
    /\ chartData[1].portfolioValue = Num(0)
    /\ chartData[3].portfolioValue = Num(96)

\* The events of a ledger dated at or before a date.
UpTo(list, date) ==
    {list[i] : i \in {j \in 1..Len(list) : notLater(list[j].date, date)}}

\* The quantity of a symbol that replaying a set of events gives.
RECURSIVE Replayed(_, _)
Replayed(events, sym) ==
    IF events = {} THEN Num(0)
    ELSE LET e == CHOOSE x \in events : TRUE
             rest == Replayed(events \ {e}, sym)
         IN IF e.symbol # sym THEN rest
            ELSE IF e.type = "BUY" THEN Plus(rest, e.quantity)
            ELSE Minus(rest, e.quantity)

\* BUY cost minus SELL cost of a set of events, in USD.
RECURSIVE NetCost(_)
NetCost(events) ==
    IF events = {} THEN Num(0)
    ELSE LET e == CHOOSE x \in events : TRUE
             cost == Times(e.quantity, Normalized(e))
         IN IF e.type = "BUY" THEN Plus(NetCost(events \ {e}), cost)
            ELSE Minus(NetCost(events \ {e}), cost)

\* The price used, 0 when there is none.
Used(price) == IF price = undefined THEN Num(0) ELSE price

\* C22: at every timestamp every symbol held in the ledger is valued,
\* portfolioValue is the sum over the symbols of the replayed quantity times
\* the price of the symbol, and the invested capital is BUY cost minus SELL
\* cost of the events of those symbols at or before the timestamp.
C22_ValueAndCapitalOfSameHoldings ==
    \A k \in 1..Len(locals) :
        LET events == UpTo(investments, benchmarkCandles.t[k])
            valued == {Valued[i] : i \in 1..Len(Valued)}
        IN /\ \A e \in events : e.symbol \in valued
           /\ locals[k].portfolioValue =
                  SumOf([i \in 1..Len(Valued) |->
                            Times(Replayed(events, Valued[i]),
                                  Used(locals[k].price[i]))])
           /\ locals[k].totalInvested =
                  NetCost({e \in events : e.symbol \in valued})

\* C23: where the series of a symbol has no sample at the index of a
\* timestamp, the price used is the latest sample before it, however far
\* back that is.
C23_CarriedForward ==
    \A k \in 1..Len(locals) :
        \A i \in 1..Len(Valued) :
            Valued[i] \in DOMAIN stockDataMap =>
                LET c == stockDataMap[Valued[i]].c
                IN locals[k].price[i] = c[IF k <= Len(c) THEN k ELSE Len(c)]

\* No label twice in a list.
NoDuplicates(list) ==
    \A i, j \in 1..Len(list) : list[i] = list[j] => i = j

\* The same labels, each as often, in some order.
IsPermutation(a, b) ==
    /\ Len(a) = Len(b)
    /\ \A x \in Range(a) \cup Range(b) :
           Cardinality({i \in 1..Len(a) : a[i] = x}) =
               Cardinality({i \in 1..Len(b) : b[i] = x})

\* C24: from lists without duplicates, adding, deleting and dragging leave
\* no label twice in the income list or in the expense list; adding a text
\* whose trimmed form is in the active list sets the error and leaves the
\* lists as they are, and a reorder gives a permutation of the list.
C24_CategoriesStayUnique ==
    /\ [](NoDuplicates(categories.income) /\ NoDuplicates(categories.expense))
    /\ [][(lastOp' # lastOp /\ lastOp'.op = "add"
              /\ includes(lastOp'.before, lastOp'.label)) =>
            (categories' = categories /\ error' # "")]_vars
    /\ [][(lastOp' # lastOp /\ lastOp'.op = "reorder") =>
            /\ IsPermutation(currentList(categories', activeTab), lastOp'.before)
            /\ currentList(categories', activeTab) # lastOp'.before]_vars

C24_Witness ==
    /\ categories.expense = << <<"F">>, <<"R">> >>
    /\ newCategory = <<" ", "R", " ">>
    /\ lastOp.op = "add"
    /\ lastOp.label = <<"R">>
    /\ error = "categoryExists"


\* Two transactions the materializer built from one definition.
SameDefinition(a, b) ==
    /\ a.isRecurring /\ b.isRecurring
    /\ a.type = b.type /\ a.category = b.category
    /\ a.amount = b.amount /\ a.description = b.description

\* C25: across startups in one calendar month, with writes that may fail
\* and the application stopping between the two writes, the persisted
\* ledger never holds two materialized transactions of one definition
\* dated in the same month.
C25_LedgerHoldsOnePerMonth ==
    LET ledger == store[STORAGE_KEY_TRANSACTIONS]
    IN \A i, j \in 1..Len(ledger) :
           (i < j /\ SameDefinition(ledger[i], ledger[j]))
               => MonthOf(ledger[i].date) # MonthOf(ledger[j].date)

\* The events folded so far.
FoldedSoFar(k) == {sortedInvestments[i] : i \in 1..k}

\* No SELL among the events folded so far exceeded the quantity of its
\* symbol held when it was folded.
NoOversell(sym) ==
    \A k \in 1..cursor :
        Replayed(FoldedSoFar(k), sym).n >= 0

\* C26: in a ledger without oversell, after folding any prefix of the
\* events of a symbol its position has totalInvested = quantity *
\* avgBuyPrice, in exact arithmetic.
C26_InvestedIsQuantityTimesAverage ==
    fpc = "forEach" =>
        \A i \in 1..Len(groups) :
            NoOversell(groups[i].symbol) =>
                groups[i].totalInvested =
                    Times(groups[i].quantity, groups[i].avgBuyPrice)

C26_Witness ==
    /\ fpc = "forEach"
    /\ cursor = 3
    /\ sortedInvestments = <<Ev(4), Ev(2), Ev(3)>>
    /\ NoOversell("AAPL") /\ NoOversell("TEVA")
    /\ Held(groups, "AAPL").totalInvested = Num(1200)
    /\ Held(groups, "AAPL").quantity = Num(6)
    /\ Held(groups, "TEVA").totalInvested = Num(80)

\* The position of the symbol was closed by the SELL folded last for it.
SoldToZero(list, symbol) ==
    /\ indexOf(list, symbol) # 0
    /\ Held(list, symbol).quantity = Num(0)
    /\ LET past == Held(list, symbol).transactions
       IN Len(past) > 0 /\ past[Len(past)].type = "SELL"

\* C29: after a position was sold down to quantity exactly zero, the first
\* BUY that follows, of quantity b at normalized price p, gives average cost
\* p and quantity b: the average retained from before has no influence.
C29_ReopenedAtPurchasePrice ==
    [][(Folded /\ FoldedTx.type = "BUY" /\ SoldToZero(groups, FoldedTx.symbol)) =>
           /\ Held(groups', FoldedTx.symbol).avgBuyPrice = Normalized(FoldedTx)
           /\ Held(groups', FoldedTx.symbol).quantity = FoldedTx.quantity]_vars

C29_Witness ==
    /\ fpc = "forEach"
    /\ cursor = 3
    /\ sortedInvestments = <<Ev(1), Ev(5), Ev(7)>>
    /\ Len(Held(groups, "AAPL").transactions) = 3
    /\ Held(groups, "AAPL").avgBuyPrice = Normalized(Ev(7))
    /\ Held(groups, "AAPL").avgBuyPrice # Normalized(Ev(1))
    /\ Held(groups, "AAPL").totalInvested = Num(600)

\* No id is twice in the list.
UniqueIds(list) ==
    \A i, j \in 1..Len(list) : list[i].id = list[j].id => i = j

\* What a save of the entity makes of a list: the entry with its id
\* replaced where it stands, or the entity appended.
Saved(old, new, item) ==
    IF \E i \in 1..Len(old) : old[i].id = item.id
    THEN /\ Len(new) = Len(old)
         /\ \A i \in 1..Len(old) :
                IF old[i].id = item.id THEN new[i] = item ELSE new[i] = old[i]
    ELSE /\ Len(new) = Len(old) + 1
         /\ new[Len(new)] = item
         /\ SubSeq(new, 1, Len(old)) = old

\* What a delete by id makes of a list: the entries with another id, in
\* their order.
Deleted(old, new, id) ==
    new = SelectSeq(old, LAMBDA x : x.id # id)

\* The list a handler works on, before and after the step.
ListOf(op, a, b, c) ==
    IF op \in {"handleSaveTransaction", "handleDeleteTransaction"} THEN a
    ELSE IF op \in {"handleSaveRecurring", "handleDeleteRecurring"} THEN b
    ELSE c

\* C27: the save handlers are upserts (an entity whose id is present
\* replaces exactly that entry at its position, length, order and the
\* other entries unchanged; an entity with a new id is appended at the
\* end), a delete by id removes exactly the entries with that id, the two
\* other lists are left alone, and ids that were unique stay unique.
C27_SavesAreUpserts ==
    /\ [][LET op == lastOp'.op
              old == ListOf(op, transactions, recurring, investments)
              new == ListOf(op, transactions', recurring', investments')
          IN /\ op \in {"handleSaveTransaction", "handleSaveRecurring",
                        "handleSaveInvestment"} => Saved(old, new, lastOp'.arg)
             /\ op \in {"handleDeleteTransaction", "handleDeleteRecurring",
                        "handleDeleteInvestment"} => Deleted(old, new, lastOp'.arg)
             /\ \/ op \in {"handleSaveTransaction", "handleDeleteTransaction"}
                \/ transactions' = transactions
             /\ \/ op \in {"handleSaveRecurring", "handleDeleteRecurring"}
                \/ recurring' = recurring
             /\ \/ op \in {"handleSaveInvestment", "handleDeleteInvestment"}
                \/ investments' = investments]_vars
    /\ [](UniqueIds(transactions) /\ UniqueIds(recurring) /\ UniqueIds(investments))

C27_Witness ==
    /\ saves = 2
    /\ lastOp.op = "handleSaveInvestment"
    /\ lastOp.arg.id = 1 /\ lastOp.arg.type = "SELL"
    /\ Len(investments) = 2
    /\ investments[1] = lastOp.arg
    /\ investments[2].id = 2
    /\ Len(transactions) = 2
    /\ transactions[1].id = 2 /\ transactions[1].amount = 40
    /\ recurring = <<>>

\* C28: one invocation of processRecurringTransactions appends at most one
\* transaction for each definition, dated in today's (year, month), however
\* long ago the definition's marker lies: no month in between is
\* backfilled.
C28_NoBackfill ==
    last.called =>
        /\ Len(Appended) <= Len(last.input.recurring)
        /\ \A i \in 1..Len(last.input.recurring) :
               AppendedFor(last.input.recurring[i].id) <= 1
        /\ \A k \in 1..Len(Appended) :
               MonthOf(Appended[k].date) = <<last.now.y, last.now.m>>

\* C28 witness: a definition whose marker is a year old is materialized
\* once, for the current month.
C28_Witness ==
    /\ last.called
    /\ \E i \in 1..Len(last.input.recurring) :
           LET config == last.input.recurring[i]
           IN /\ config.lastProcessedDate # undefined
              /\ parseToDate(config.lastProcessedDate).y = last.now.y - 1
              /\ parseToDate(config.lastProcessedDate).m = last.now.m
              /\ AppendedFor(config.id) = 1
              /\ MonthOf(last.result.updatedRecurring[i].lastProcessedDate)
                     = <<last.now.y, last.now.m>>

\* The calendar months (month and year) in which the ledger has a
\* transaction dated DD-MM-YYYY.
CalendarMonths(list) ==
    {SubSeq(list[i].date, 4, 10) :
        i \in {j \in 1..Len(list) : MatchesDDMMYYYY(list[j].date)}}

\* C30: the averages of Insights are the total income and the total
\* expense divided by the number of distinct calendar months with a
\* transaction dated DD-MM-YYYY, and they are the averages of the Dashboard.
C30_AveragesPerCalendarMonth ==
    (stats # unrendered /\ stats # null) =>
        LET months == Num(Cardinality(CalendarMonths(transactions)))
        IN /\ stats.avgIncome = Over(Num(total(transactions, "INCOME")), months)
           /\ stats.avgExpense = Over(Num(total(transactions, "EXPENSE")), months)
           /\ averages # unrendered =>
                  /\ stats.avgIncome = averages.income
                  /\ stats.avgExpense = averages.expense

====